---- MODULE Spec2Model ----
(***************************************************************************)
(* Model of the ClaudeClaw memory subsystem: the SQLite store of db.ts     *)
(* (memories table, memories_fts index and its triggers), the retriever    *)
(* and classifier of memory.ts and the decay sweep started by index.ts.    *)
(*                                                                         *)
(* Text is kept as TLA+ strings and processed character by character, the  *)
(* way the JavaScript string methods and the FTS5 tokenizer do.            *)
(* Salience (an SQLite REAL) is kept in fixed point, in millionths:        *)
(* 1.0 is 1000000.  Products are rounded to the nearest millionth.         *)
(* Time is the Unix time in seconds since the first process start.         *)
(***************************************************************************)
EXTENDS Integers, Sequences, FiniteSets, TLC

VARIABLES
    now,            \* Math.floor(Date.now() / 1000)
    memories,       \* table memories: id -> row
    memories_fts,   \* FTS5 index rows {[rowid, content]} written by the triggers
    seq,            \* sqlite_sequence of memories (AUTOINCREMENT)
    lastOp,         \* the last call and what it returned
    touches,        \* number of reinforcing calls so far
    sweeps,         \* number of decay sweeps so far
    everTouched,    \* history: ids ever passed to touchMemory while stored
    touchedSince,   \* history: ids reinforced since the previous sweep
    turn,           \* handleMessage: the call in flight and where it stands
    held,           \* per request: the rows it read and has still to touch
    sweeping,       \* decayMemories: the sweeps whose UPDATE ran, DELETE pending
    proc,           \* index.ts main(): where it stands, the sweep timer
    scheduled_tasks, \* table scheduled_tasks: id -> row
    runs,           \* scheduler.ts: the runDueTasks calls awaiting the agent
    sessions,       \* table sessions: chat_id -> row
    ALLOWED_CHAT_IDS, \* config.ts: the allow-list read when the process starts
    PID_FILE,       \* store/claudeclaw.pid: the pid written in it, or NoFile
    instances       \* per pid: where the process stands, SIGTERM pending

\* what the handlers in flight hold
procVars == <<turn, held, sweeping>>

\* the process and the scheduler's table
sysVars == <<proc, scheduled_tasks, runs, sessions, ALLOWED_CHAT_IDS,
            PID_FILE, instances>>

vars == <<now, memories, memories_fts, seq, lastOp, touches, sweeps,
          everTouched, touchedSince, turn, held, sweeping, proc,
          scheduled_tasks, runs, sessions, ALLOWED_CHAT_IDS,
          PID_FILE, instances>>

-----------------------------------------------------------------------------
(* Bounds of the model *)

MaxId == 2              \* inserts explored (Spec)
MaxClock == 1           \* clock steps explored (Spec)
MaxTicks == 2           \* clock steps explored (SpecTouch)
MaxTouches == 2         \* touchMemory calls explored (Spec)
MaxSweeps == 1          \* sweeps explored (Spec, SpecTouch)
MaxReinforcements == 42 \* touchMemory calls explored (SpecTouch)
MaxResweeps == 2        \* successive decayMemories calls explored (SpecResweep)
MaxTextLen == 4         \* characters of a text given to splitMessage (SpecSplit)
MaxLimit == 3           \* largest chunk limit given to splitMessage (SpecSplit)
MaxDays == 120          \* daily interval ticks explored (SpecDecay, SpecDaily)
MaxPid == 3            \* processes started (SpecLock)

-----------------------------------------------------------------------------
(* Inputs explored *)

Chats == {"chat-1", "chat-2"}

\* contents given to insertMemory directly
Contents == {"User likes Rust"}

\* user messages of a turn
UserMessages == {"remember I use Go", "remember that I use Go"}

AssistantReplies == {"Got it."}

\* messages a context is built for
ContextMessages ==
    {"remember I use Go", "what language do I use", "tell me about rust",
     "rust AND go", "?!"}

\* contents and sector values a caller may pass to insertMemory at run time
InsertContents == Contents \cup {""}
InsertSectors == {"semantic", "episodic", "procedural"}

\* texts of the messages handleMessage is called with
TurnMessages == {"remember that I use Go", "what language do I use", "rust AND go"}

\* contents the query "tell me about rust" does and does not match
BlockContents == {"User likes Rust", "Go is fast"}

\* user messages whose words begin, end or equal words of the contents
QueryMessages == {"use the tools", "tools you use", "which user", "likes"}

\* user messages around the skip test and the sector pattern of a stored turn
RecordMessages == {"hi", "/remember that I use Go", "I use Go, remember!!",
                   "I use Go, remember!!!", "ALWAYS use tabs in this repo",
                   "I hate mondays so very much", "I'm working on the parser",
                   "Tell me about the economy today"}
RecordReplies == {"Got it.", "I remember: you always use my tools."}

\* queries given to searchMemoriesFts directly
SearchQueries == {"rust*", "user*"}

-----------------------------------------------------------------------------
(* Characters and strings *)

Min(a, b) == IF a <= b THEN a ELSE b
Max(a, b) == IF a >= b THEN a ELSE b

LowerChars == <<"a","b","c","d","e","f","g","h","i","j","k","l","m",
                "n","o","p","q","r","s","t","u","v","w","x","y","z">>
UpperChars == <<"A","B","C","D","E","F","G","H","I","J","K","L","M",
                "N","O","P","Q","R","S","T","U","V","W","X","Y","Z">>
DigitChars == <<"0","1","2","3","4","5","6","7","8","9">>

Range(f) == {f[i] : i \in DOMAIN f}

UpperSet == Range(UpperChars)
AlnumSet == Range(LowerChars) \cup Range(UpperChars) \cup Range(DigitChars)
SpaceSet == {" ", "\n", "\t", "\r"}

\* [a-zA-Z0-9]
IsAlnum(c) == c \in AlnumSet
\* \s
IsSpace(c) == c \in SpaceSet
\* \w
IsWordChar(c) == IsAlnum(c) \/ c = "_"

\* String.prototype.toLowerCase on one character (ASCII)
LowerOf == [c \in UpperSet |-> LowerChars[CHOOSE i \in DOMAIN UpperChars : UpperChars[i] = c]]
LowerChar(c) == IF c \in UpperSet THEN LowerOf[c] ELSE c

RECURSIVE ToLower(_)
ToLower(s) == IF s = "" THEN "" ELSE LowerChar(Head(s)) \o ToLower(Tail(s))

\* s.slice(0, n)
Slice(s, n) == SubSeq(s, 1, Min(n, Len(s)))

\* s.startsWith(p)
StartsWith(s, p) == Len(s) >= Len(p) /\ SubSeq(s, 1, Len(p)) = p

\* s.includes(p)
Includes(s, p) ==
    \E i \in 1..(Len(s) - Len(p) + 1) : SubSeq(s, i, i + Len(p) - 1) = p

\* s.replace(/[^a-zA-Z0-9\s]/g, ' ')
RECURSIVE ReplaceNonAlnum(_)
ReplaceNonAlnum(s) ==
    IF s = "" THEN ""
    ELSE (IF IsAlnum(Head(s)) \/ IsSpace(Head(s)) THEN Head(s) ELSE " ")
         \o ReplaceNonAlnum(Tail(s))

\* the maximal runs of non-space characters of s, in order:
\* s.trim().split(/\s+/) without the empty strings
RECURSIVE SplitWords(_, _)
SplitWords(s, cur) ==
    IF s = "" THEN (IF cur = "" THEN <<>> ELSE <<cur>>)
    ELSE IF IsSpace(Head(s))
         THEN (IF cur = "" THEN <<>> ELSE <<cur>>) \o SplitWords(Tail(s), "")
         ELSE SplitWords(Tail(s), cur \o Head(s))

\* words.join(sep)
RECURSIVE Join(_, _)
Join(words, sep) ==
    IF words = <<>> THEN ""
    ELSE IF Len(words) = 1 THEN words[1]
    ELSE words[1] \o sep \o Join(Tail(words), sep)

\* arr.filter(p) for p = (w => w.length > 2)
RECURSIVE FilterLong(_)
FilterLong(words) ==
    IF words = <<>> THEN <<>>
    ELSE (IF Len(words[1]) > 2 THEN <<words[1]>> ELSE <<>>) \o FilterLong(Tail(words))

-----------------------------------------------------------------------------
(* Salience arithmetic, in millionths *)

InitialSalience == 1000000      \* VALUES (?, ?, ?, ?, 1.0, ?, ?)
ReinforceDelta == 100000        \* salience + 0.1
SalienceCeiling == 5000000      \* MIN(..., 5.0)
DecayPercent == 98              \* salience * 0.98
PruneFloor == 100000            \* DELETE ... WHERE salience < 0.1
GraceSeconds == 86400           \* Date.now()/1000 - 86400
FtsLimit == 3                   \* searchMemoriesFts(chatId, query, 3)
RecentLimit == 5                \* getRecentMemories(chatId, 5)
ListLimit == 20                 \* getMemoriesForChat(chatId, limit = 20)
MaxQueryTokens == 5             \* .slice(0, 5)
MinTurnLength == 20             \* userMsg.length <= 20
TurnSliceLength == 200          \* userMsg.slice(0, 200)

\* a reinforcement without the MIN
ReinforcedUnclamped(s) == s + ReinforceDelta

\* a reinforcement that adds nothing
Unreinforced(s) == s

\* MIN(salience + 0.1, 5.0)
Reinforced(s) == Min(s + ReinforceDelta, SalienceCeiling)

\* a decay by 0.95 instead of 0.98
DecayedTooFast(s) == (s * 95 + 50) \div 100

\* salience * 0.98, rounded to the nearest millionth
Decayed(s) == (s * DecayPercent + 50) \div 100

-----------------------------------------------------------------------------
(* memory.ts: the classifier's pattern and the retriever's query *)

\* a trigger list without "i'm" and "i hate"
SemanticPhrasesListed == <<"my", "i am", "i prefer", "remember", "always",
                           "never", "i like", "i use", "i work">>

SemanticPhrases == <<"my", "i am", "i'm", "i prefer", "remember", "always",
                     "never", "i like", "i hate", "i use", "i work">>

\* phrase p stands at position i of s between two word boundaries (\b ... \b),
\* letter case ignored (/i)
PhraseAt(s, i, p) ==
    LET j == i + Len(p) - 1 IN
    /\ j <= Len(s)
    /\ ToLower(SubSeq(s, i, j)) = p
    /\ (i = 1 \/ ~IsWordChar(SubSeq(s, i - 1, i - 1)))
    /\ (j = Len(s) \/ ~IsWordChar(SubSeq(s, j + 1, j + 1)))

\* SEMANTIC_PATTERN.test(s)
SEMANTIC_PATTERN(s) ==
    \E k \in DOMAIN SemanticPhrases :
        \E i \in 1..Len(s) : PhraseAt(s, i, SemanticPhrases[k])

\* a skip test that forgets the length
TurnSkippedCommandOnly(userMsg) == StartsWith(userMsg, "/")

\* if (userMsg.length <= 20 || userMsg.startsWith('/')) return
TurnSkipped(userMsg) == Len(userMsg) <= MinTurnLength \/ StartsWith(userMsg, "/")

\* SEMANTIC_PATTERN.test(userMsg) ? 'semantic' : 'episodic'
TurnSector(userMsg) == IF SEMANTIC_PATTERN(userMsg) THEN "semantic" ELSE "episodic"

\* a content written before the reply is there
TurnContentUserOnly(userMsg, assistantMsg) == "User: " \o Slice(userMsg, TurnSliceLength)

\* `User: ${userMsg.slice(0, 200)}\nAssistant: ${assistantMsg.slice(0, 200)}`
TurnContent(userMsg, assistantMsg) ==
    "User: " \o Slice(userMsg, TurnSliceLength) \o "\nAssistant: "
             \o Slice(assistantMsg, TurnSliceLength)

\* the words kept for the keyword query: non-alphanumerics replaced by spaces,
\* split on white space, words longer than 2 characters, the first 5
QueryWords(userMessage) ==
    LET w == FilterLong(SplitWords(ReplaceNonAlnum(userMessage), ""))
    IN  SubSeq(w, 1, Min(MaxQueryTokens, Len(w)))

\* const sanitized = ... .join(' OR ')
Sanitized(userMessage) == Join(QueryWords(userMessage), " OR ")

-----------------------------------------------------------------------------
(* SQLite FTS5: tokenizer and the OR-queries the retriever builds *)

\* unicode61 tokenizer: runs of letters and digits, folded to lower case
FtsTokens(text) == SplitWords(ToLower(ReplaceNonAlnum(text)), "")

\* words the FTS5 query parser reads as operators
FtsOperators == {"AND", "OR", "NOT"}

\* a query word without its trailing prefix star
TermText(word) ==
    IF Len(word) > 0 /\ SubSeq(word, Len(word), Len(word)) = "*"
    THEN SubSeq(word, 1, Len(word) - 1)
    ELSE word

IsPrefixTerm(word) == Len(word) > 0 /\ SubSeq(word, Len(word), Len(word)) = "*"

\* FTS5 rejects the query (SQLITE_ERROR: fts5: syntax error); the fragment
\* modelled is  term (OR term)*  where a term is a bareword with an optional
\* star, and an operator word in a term's place does not parse
FtsSyntaxError(query) ==
    LET w == SplitWords(query, "") IN
    \/ Len(w) % 2 = 0
    \/ \E i \in DOMAIN w :
          \/ (i % 2 = 1 /\ (TermText(w[i]) \in FtsOperators \/ TermText(w[i]) = ""))
          \/ (i % 2 = 0 /\ w[i] # "OR")

\* one query term against one document
TermMatches(word, text) ==
    LET t == ToLower(TermText(word)) IN
    \E k \in DOMAIN FtsTokens(text) :
        IF IsPrefixTerm(word)
        THEN StartsWith(FtsTokens(text)[k], t)
        ELSE FtsTokens(text)[k] = t

\* content MATCH query, for a query that parses
FtsMatch(text, query) ==
    LET w == SplitWords(query, "") IN
    \E i \in DOMAIN w : i % 2 = 1 /\ TermMatches(w[i], text)

-----------------------------------------------------------------------------
(* The text functions above, evaluated once for the texts explored *)

KnownTexts ==
    Contents \cup BlockContents \cup {TurnContent(u, a) : u \in UserMessages \cup TurnMessages,
                                       a \in AssistantReplies}
TokensTable == [x \in KnownTexts |-> FtsTokens(x)]
TokensOf(x) == IF x \in KnownTexts THEN TokensTable[x] ELSE FtsTokens(x)
KnownQueries ==
    SearchQueries \cup {Sanitized(m) \o "*" :
                            m \in ContextMessages \cup TurnMessages \cup QueryMessages}
                  \cup UNION {Range(TokensTable[x]) : x \in KnownTexts}

SanitizedTable ==
    [m \in ContextMessages \cup TurnMessages \cup QueryMessages |-> Sanitized(m)]
SectorTable == [u \in UserMessages \cup TurnMessages \cup RecordMessages |-> TurnSector(u)]
SyntaxErrorTable == [q \in KnownQueries |-> FtsSyntaxError(q)]
MatchTable == [x \in KnownTexts |-> [q \in KnownQueries |-> FtsMatch(x, q)]]

SanitizedOf(m) == IF m \in DOMAIN SanitizedTable THEN SanitizedTable[m] ELSE Sanitized(m)
SectorOf(u) == IF u \in DOMAIN SectorTable THEN SectorTable[u] ELSE TurnSector(u)
SyntaxErrorOf(q) == IF q \in KnownQueries THEN SyntaxErrorTable[q] ELSE FtsSyntaxError(q)
MatchOf(x, q) ==
    IF x \in KnownTexts /\ q \in KnownQueries THEN MatchTable[x][q] ELSE FtsMatch(x, q)

-----------------------------------------------------------------------------
(* db.ts: the memories table, its FTS5 index and the statements on them.   *)
(* A database value is [memories, memories_fts, seq]; every statement      *)
(* returns the database it leaves, triggers included.                      *)

Sectors == {"semantic", "episodic"}

DB == [memories |-> memories, memories_fts |-> memories_fts, seq |-> seq]

\* the empty schema initDatabase() creates
EmptyDB == [memories |-> <<>>, memories_fts |-> {}, seq |-> 0]

FtsRow(row) == [rowid |-> row.id, content |-> row.content]

\* CREATE TRIGGER memories_ai AFTER INSERT
memories_ai(fts, new) == fts \cup {FtsRow(new)}

\* CREATE TRIGGER memories_ad AFTER DELETE
memories_ad(fts, old) == fts \ {FtsRow(old)}

\* an update trigger that deletes the old entry and adds none
memories_au_delete_only(fts, old, new) == fts \ {FtsRow(old)}

\* CREATE TRIGGER memories_au AFTER UPDATE
memories_au(fts, old, new) == (fts \ {FtsRow(old)}) \cup {FtsRow(new)}

\* the index after an UPDATE of the rows ids: memories_au row by row
RECURSIVE UpdateTriggers(_, _, _, _)
UpdateTriggers(fts, old, new, ids) ==
    IF ids = {} THEN fts
    ELSE LET id == CHOOSE x \in ids : TRUE IN
         UpdateTriggers(memories_au(fts, old[id], new[id]), old, new, ids \ {id})

\* the index after a DELETE of the rows ids: memories_ad row by row
RECURSIVE DeleteTriggers(_, _, _)
DeleteTriggers(fts, old, ids) ==
    IF ids = {} THEN fts
    ELSE LET id == CHOOSE x \in ids : TRUE IN
         DeleteTriggers(memories_ad(fts, old[id]), old, ids \ {id})

\* CHECK(sector IN ('semantic','episodic')) and the NOT NULL columns
InsertRejected(chatId, content, sector) == sector \notin Sectors

\* an insert that stamps created_at only
insertMemoryUnstamped(d, chatId, content, sector, t) ==
    IF sector \notin Sectors THEN d
    ELSE LET id == d.seq + 1
             row == [id |-> id, chat_id |-> chatId, topic_key |-> "NULL",
                     content |-> content, sector |-> sector,
                     salience |-> InitialSalience,
                     created_at |-> t, accessed_at |-> 0]
         IN  [memories |-> [i \in DOMAIN d.memories \cup {id} |->
                               IF i = id THEN row ELSE d.memories[i]],
              memories_fts |-> memories_ai(d.memories_fts, row),
              seq |-> id]

\* an insert into a table declared INTEGER PRIMARY KEY without AUTOINCREMENT:
\* the new rowid is one more than the largest rowid in the table
insertMemoryByRowid(d, chatId, content, sector, t) ==
    IF sector \notin Sectors THEN d
    ELSE LET id == IF DOMAIN d.memories = {} THEN 1
                   ELSE 1 + CHOOSE m \in DOMAIN d.memories :
                                \A i \in DOMAIN d.memories : i <= m
             row == [id |-> id, chat_id |-> chatId, topic_key |-> "NULL",
                     content |-> content, sector |-> sector,
                     salience |-> InitialSalience,
                     created_at |-> t, accessed_at |-> t]
         IN  [memories |-> [i \in DOMAIN d.memories \cup {id} |->
                               IF i = id THEN row ELSE d.memories[i]],
              memories_fts |-> memories_ai(d.memories_fts, row),
              seq |-> id]

\* insertMemory(chatId, content, sector): AUTOINCREMENT id, salience 1.0,
\* both timestamps now; a constraint violation throws and changes nothing
insertMemory(d, chatId, content, sector, t) ==
    IF InsertRejected(chatId, content, sector) THEN d
    ELSE LET id == d.seq + 1
             row == [id |-> id, chat_id |-> chatId, topic_key |-> "NULL",
                     content |-> content, sector |-> sector,
                     salience |-> InitialSalience,
                     created_at |-> t, accessed_at |-> t]
         IN  [memories |-> [i \in DOMAIN d.memories \cup {id} |->
                               IF i = id THEN row ELSE d.memories[i]],
              memories_fts |-> memories_ai(d.memories_fts, row),
              seq |-> id]

\* a touch that leaves accessed_at as it was
touchMemoryKeepsTime(d, id, t) ==
    [d EXCEPT !.memories = [i \in DOMAIN d.memories |->
                  IF i = id
                  THEN [d.memories[i] EXCEPT !.salience = Reinforced(@)]
                  ELSE d.memories[i]]]

\* the UPDATE of touchMemory without its WHERE id = ?
touchMemoryEveryRow(d, id, t) ==
    LET new == [i \in DOMAIN d.memories |->
                  [d.memories[i] EXCEPT !.accessed_at = t,
                                        !.salience = Reinforced(@)]]
    IN  [d EXCEPT !.memories = new,
                  !.memories_fts = UpdateTriggers(@, d.memories, new,
                                                  DOMAIN d.memories)]

\* touchMemory(id): UPDATE memories SET accessed_at = ?,
\*                  salience = MIN(salience + 0.1, 5.0) WHERE id = ?
touchMemory(d, id, t) ==
    LET hit == DOMAIN d.memories \cap {id}
        new == [i \in DOMAIN d.memories |->
                  IF i = id
                  THEN [d.memories[i] EXCEPT !.accessed_at = t,
                                             !.salience = Reinforced(@)]
                  ELSE d.memories[i]]
    IN  [d EXCEPT !.memories = new,
                  !.memories_fts = UpdateTriggers(@, d.memories, new, hit)]

\* WHERE created_at < ? of the decay UPDATE, cutoff = now - 86400
DecayDue(row, t) == row.created_at < t - GraceSeconds

\* UPDATE memories SET salience = salience * 0.98 WHERE created_at < ?
decayUpdate(d, t) ==
    LET hit == {i \in DOMAIN d.memories : DecayDue(d.memories[i], t)}
        new == [i \in DOMAIN d.memories |->
                  IF i \in hit
                  THEN [d.memories[i] EXCEPT !.salience = Decayed(@)]
                  ELSE d.memories[i]]
    IN  [d EXCEPT !.memories = new,
                  !.memories_fts = UpdateTriggers(@, d.memories, new, hit)]

\* a sweep without the DELETE
pruneNothing(d) == d

\* DELETE FROM memories WHERE salience < 0.1
pruneDelete(d) ==
    LET gone == {i \in DOMAIN d.memories : d.memories[i].salience < PruneFloor}
    IN  [d EXCEPT !.memories = [i \in DOMAIN d.memories \ gone |-> d.memories[i]],
                  !.memories_fts = DeleteTriggers(@, d.memories, gone)]

\* decayMemories(): the UPDATE, then the DELETE
decayMemories(d, t) == pruneDelete(decayUpdate(d, t))

\* every order in which the elements of S can be listed
RECURSIVE Orderings(_)
Orderings(S) ==
    IF S = {} THEN {<<>>}
    ELSE UNION {{<<x>> \o o : o \in Orderings(S \ {x})} : x \in S}

\* a query without its LIMIT
LimitNone(rows, n) == rows

\* LIMIT n
Limit(rows, n) == SubSeq(rows, 1, Min(n, Len(rows)))

\* the rows of ids in one listing order
RowsOf(d, order) == [k \in DOMAIN order |-> d.memories[order[k]]]

\* ids of the rows the join of searchMemoriesFts selects:
\*   FROM memories m JOIN memories_fts f ON m.id = f.rowid
\*   WHERE f.content MATCH ? AND m.chat_id = ?
FtsHits(d, chatId, query) ==
    {i \in DOMAIN d.memories :
        /\ d.memories[i].chat_id = chatId
        /\ \E f \in d.memories_fts : f.rowid = i /\ MatchOf(f.content, query)}

\* searchMemoriesFts(chatId, query, limit): the result lists the query may
\* return; ORDER BY rank is the engine's bm25 score, left open here
searchMemoriesFts(d, chatId, query, limit) ==
    {Limit(RowsOf(d, o), limit) : o \in Orderings(FtsHits(d, chatId, query))}

\* a selection without the WHERE chat_id = ?
AnyIds(d, chatId) == DOMAIN d.memories

\* ids of the rows WHERE chat_id = ?
OwnedIds(d, chatId) == {i \in DOMAIN d.memories : d.memories[i].chat_id = chatId}

\* listing orders that satisfy ORDER BY accessed_at DESC (ties in any order)
RECURSIVE ByAccessDesc(_, _)
ByAccessDesc(d, ids) ==
    IF ids = {} THEN {<<>>}
    ELSE LET newest == {i \in ids : \A j \in ids :
                           d.memories[i].accessed_at >= d.memories[j].accessed_at}
         IN  UNION {{<<x>> \o o : o \in ByAccessDesc(d, ids \ {x})} : x \in newest}

\* getRecentMemories(chatId, limit)
getRecentMemories(d, chatId, limit) ==
    {Limit(RowsOf(d, o), limit) : o \in ByAccessDesc(d, OwnedIds(d, chatId))}

\* getMemoriesForChat(chatId, limit): ... ORDER BY accessed_at DESC LIMIT ?
getMemoriesForChat(d, chatId, limit) ==
    {Limit(RowsOf(d, o), limit) : o \in ByAccessDesc(d, OwnedIds(d, chatId))}

-----------------------------------------------------------------------------
(* memory.ts: retriever, classifier, sweep *)

\* m.id of the rows listed
RowIdsOf(rows) == {rows[k].id : k \in DOMAIN rows}

\* a merge that filters nothing
KeepAll(rows, seen) == rows

\* [...ftsResults, ...recentResults].filter(m => first time m.id is seen)
RECURSIVE Dedup(_, _)
Dedup(rows, seen) ==
    IF rows = <<>> THEN <<>>
    ELSE IF rows[1].id \in seen THEN Dedup(Tail(rows), seen)
    ELSE <<rows[1]>> \o Dedup(Tail(rows), seen \cup {rows[1].id})

\* a reinforcement computed by the caller from the row it read earlier
touchRowFromCopy(d, m, t) ==
    LET hit == DOMAIN d.memories \cap {m.id}
        new == [i \in DOMAIN d.memories |->
                  IF i = m.id
                  THEN [d.memories[i] EXCEPT !.accessed_at = t,
                                             !.salience = Reinforced(m.salience)]
                  ELSE d.memories[i]]
    IN  [d EXCEPT !.memories = new,
                  !.memories_fts = UpdateTriggers(@, d.memories, new, hit)]

\* touchMemory(m.id): of the row m read earlier only the id is passed on
touchRow(d, m, t) == touchMemory(d, m.id, t)

\* a loop that reinforces nothing
TouchNone(d, rows, t) == d

\* for (const m of combined) touchMemory(m.id)
RECURSIVE TouchAll(_, _, _)
TouchAll(d, rows, t) ==
    IF rows = <<>> THEN d
    ELSE TouchAll(touchRow(d, rows[1], t), Tail(rows), t)

\* combined.map(m => `- ${m.content} (${m.sector})`)
ContextLines(rows) ==
    [k \in DOMAIN rows |-> "- " \o rows[k].content \o " (" \o rows[k].sector \o ")"]

\* `[Memory context]\n${lines.join('\n')}`
ContextBlock(rows) == "[Memory context]\n" \o Join(ContextLines(rows), "\n")

\* the statements of buildMemoryContext at which the store may fail; the
\* touchMemory that fails is the first of the loop ("touch") or its last
\* ("touchLast"), after the calls before it have updated their rows
StoreFaults == {"none", "search", "recent", "touch", "touchLast"}

\* the rows the loop has reinforced when its last touchMemory throws
TouchedBeforeLast(rows) == SubSeq(rows, 1, Len(rows) - 1)

\* an error thrown inside the try block by the statement at
Thrown(d, at, ftsResults) ==
    [text |-> "", rows |-> <<>>, fts |-> ftsResults, recent |-> <<>>, db |-> d,
     caught |-> FALSE, threw |-> TRUE, failedAt |-> at]

\* the outcome without  if (combined.length === 0) return ''
BuildOutcomeNoEarlyReturn(d, ftsResults, recentResults, t, fault) ==
    LET combined == Dedup(ftsResults \o recentResults, {}) IN
    [text |-> ContextBlock(combined), rows |-> combined,
     fts |-> ftsResults, recent |-> recentResults,
     db |-> TouchAll(d, combined, t),
     caught |-> FALSE, threw |-> FALSE, failedAt |-> "none"]

\* what one pair of query results makes buildMemoryContext do
BuildOutcome(d, ftsResults, recentResults, t, fault) ==
    LET combined == Dedup(ftsResults \o recentResults, {}) IN
    IF combined = <<>>
    THEN [text |-> "", rows |-> <<>>, fts |-> ftsResults, recent |-> recentResults,
          db |-> d, caught |-> FALSE, threw |-> FALSE, failedAt |-> "none"]
    ELSE IF fault = "touch" THEN Thrown(d, "touch", ftsResults)
    ELSE IF fault = "touchLast"
    THEN Thrown(TouchAll(d, TouchedBeforeLast(combined), t), "touch", ftsResults)
    ELSE [text |-> ContextBlock(combined), rows |-> combined,
          fts |-> ftsResults, recent |-> recentResults,
          db |-> TouchAll(d, combined, t),
          caught |-> FALSE, threw |-> FALSE, failedAt |-> "none"]

\* the try block of buildMemoryContext: the outcomes it may have when the
\* store fails at the statement fault; the search also throws when the FTS5
\* query does not parse
tryBuildMemoryContext(d, chatId, userMessage, t, fault) ==
    LET sanitized == SanitizedOf(userMessage)
        query == sanitized \o "*"
    IN  IF sanitized # "" /\ (SyntaxErrorOf(query) \/ fault = "search")
        THEN {Thrown(d, "search", <<>>)}
        ELSE LET ftsResults == IF sanitized # ""
                               THEN searchMemoriesFts(d, chatId, query, FtsLimit)
                               ELSE {<<>>}
             IN  IF fault = "recent"
                 THEN {Thrown(d, "recent", f) : f \in ftsResults}
                 ELSE {BuildOutcome(d, f, r, t, fault) :
                         f \in ftsResults,
                         r \in getRecentMemories(d, chatId, RecentLimit)}

\* an outcome whose error goes on to the caller
Rethrow(out) == out

\* catch (err) { logger.warn(...); return '' }
CatchBlock(out) ==
    IF out.threw THEN [out EXCEPT !.caught = TRUE, !.threw = FALSE, !.text = ""]
    ELSE out

\* buildMemoryContext(chatId, userMessage) when the store fails at fault
buildMemoryContextUnder(d, chatId, userMessage, t, fault) ==
    {CatchBlock(out) : out \in tryBuildMemoryContext(d, chatId, userMessage, t, fault)}

\* buildMemoryContext(chatId, userMessage): the outcomes it may have; caught
\* is the catch branch, taken when the FTS5 query does not parse
buildMemoryContext(d, chatId, userMessage, t) ==
    buildMemoryContextUnder(d, chatId, userMessage, t, "none")

\* saveConversationTurn: catch (err) { logger.warn(...) }
saveCatch(out) ==
    IF out.threw THEN [out EXCEPT !.caught = TRUE, !.threw = FALSE] ELSE out

\* saveConversationTurn(chatId, userMsg, assistantMsg) when insertMemory
\* throws (fault) or not
saveConversationTurnUnder(d, chatId, userMsg, assistantMsg, t, fault) ==
    IF TurnSkipped(userMsg) THEN [db |-> d, threw |-> FALSE, caught |-> FALSE]
    ELSE saveCatch(
           IF fault
           THEN [db |-> d, threw |-> TRUE, caught |-> FALSE]
           ELSE [db |-> insertMemory(d, chatId, TurnContent(userMsg, assistantMsg),
                                     SectorOf(userMsg), t),
                 threw |-> FALSE, caught |-> FALSE])

\* saveConversationTurn(chatId, userMsg, assistantMsg)
saveConversationTurn(d, chatId, userMsg, assistantMsg, t) ==
    IF TurnSkipped(userMsg) THEN d
    ELSE insertMemory(d, chatId, TurnContent(userMsg, assistantMsg),
                      SectorOf(userMsg), t)

\* the statements of decayMemories at which the store may fail
SweepFaults == {"none", "update", "delete"}

\* runDecaySweep: catch (err) { logger.warn(...) }
sweepCatch(out) ==
    IF out.threw THEN [out EXCEPT !.caught = TRUE, !.threw = FALSE] ELSE out

\* runDecaySweep() when the store fails at the statement fault
runDecaySweepUnder(d, t, fault) ==
    sweepCatch(
      IF fault = "update" THEN [db |-> d, threw |-> TRUE, caught |-> FALSE]
      ELSE IF fault = "delete"
           THEN [db |-> decayUpdate(d, t), threw |-> TRUE, caught |-> FALSE]
           ELSE [db |-> decayMemories(d, t), threw |-> FALSE, caught |-> FALSE])

\* runDecaySweep(): dbDecay() inside try/catch
runDecaySweep(d, t) == decayMemories(d, t)

-----------------------------------------------------------------------------
(* Actions: one per exported function, applied to the database *)

Install(d) ==
    /\ memories' = d.memories
    /\ memories_fts' = d.memories_fts
    /\ seq' = d.seq

\* the wall clock moves on by three quarters of the grace window
TickSeconds == (3 * GraceSeconds) \div 4

Tick(limit) ==
    /\ now + TickSeconds <= limit
    /\ now' = now + TickSeconds
    /\ lastOp' = [op |-> "tick"]
    /\ UNCHANGED <<memories, memories_fts, seq, touches, sweeps,
                   everTouched, touchedSince>>
    /\ UNCHANGED procVars
    /\ UNCHANGED sysVars

InsertMemory(chatId, content, sector) ==
    /\ Install(insertMemory(DB, chatId, content, sector, now))
    /\ lastOp' = [op |-> "insertMemory", chat |-> chatId, content |-> content,
                  sector |-> sector,
                  threw |-> InsertRejected(chatId, content, sector)]
    /\ UNCHANGED <<now, touches, sweeps, everTouched, touchedSince>>
    /\ UNCHANGED procVars
    /\ UNCHANGED sysVars

SaveConversationTurn(chatId, userMsg, assistantMsg) ==
    /\ Install(saveConversationTurn(DB, chatId, userMsg, assistantMsg, now))
    /\ lastOp' = [op |-> "saveConversationTurn", chat |-> chatId,
                  userMsg |-> userMsg, assistantMsg |-> assistantMsg]
    /\ UNCHANGED <<now, touches, sweeps, everTouched, touchedSince>>
    /\ UNCHANGED procVars
    /\ UNCHANGED sysVars

TouchMemory(id) ==
    /\ Install(touchMemory(DB, id, now))
    /\ lastOp' = [op |-> "touchMemory", id |-> id]
    /\ touches' = touches + 1
    /\ everTouched' = everTouched \cup (DOMAIN memories \cap {id})
    /\ touchedSince' = touchedSince \cup (DOMAIN memories \cap {id})
    /\ UNCHANGED <<now, sweeps>>
    /\ UNCHANGED procVars
    /\ UNCHANGED sysVars

RunDecaySweep ==
    /\ Install(runDecaySweep(DB, now))
    /\ lastOp' = [op |-> "runDecaySweep"]
    /\ sweeps' = sweeps + 1
    /\ touchedSince' = {}
    /\ UNCHANGED <<now, touches, everTouched>>
    /\ UNCHANGED procVars
    /\ UNCHANGED sysVars

SearchMemoriesFts(chatId, query) ==
    /\ \E rows \in searchMemoriesFts(DB, chatId, query, FtsLimit) :
          lastOp' = [op |-> "searchMemoriesFts", chat |-> chatId,
                     query |-> query, rows |-> rows]
    /\ UNCHANGED <<now, memories, memories_fts, seq, touches, sweeps,
                   everTouched, touchedSince>>
    /\ UNCHANGED procVars
    /\ UNCHANGED sysVars

GetRecentMemories(chatId) ==
    /\ \E rows \in getRecentMemories(DB, chatId, RecentLimit) :
          lastOp' = [op |-> "getRecentMemories", chat |-> chatId, rows |-> rows]
    /\ UNCHANGED <<now, memories, memories_fts, seq, touches, sweeps,
                   everTouched, touchedSince>>
    /\ UNCHANGED procVars
    /\ UNCHANGED sysVars

GetMemoriesForChat(chatId) ==
    /\ \E rows \in getMemoriesForChat(DB, chatId, ListLimit) :
          lastOp' = [op |-> "getMemoriesForChat", chat |-> chatId, rows |-> rows]
    /\ UNCHANGED <<now, memories, memories_fts, seq, touches, sweeps,
                   everTouched, touchedSince>>
    /\ UNCHANGED procVars
    /\ UNCHANGED sysVars

BuildMemoryContext(chatId, userMessage) ==
    /\ \E out \in buildMemoryContext(DB, chatId, userMessage, now) :
          /\ Install(out.db)
          /\ lastOp' = [op |-> "buildMemoryContext", chat |-> chatId,
                        userMessage |-> userMessage, text |-> out.text,
                        rows |-> out.rows, caught |-> out.caught,
                        fts |-> out.fts, recent |-> out.recent,
                        failedAt |-> out.failedAt]
          /\ everTouched' = everTouched \cup {out.rows[k].id : k \in DOMAIN out.rows}
          /\ touchedSince' = touchedSince \cup {out.rows[k].id : k \in DOMAIN out.rows}
    /\ touches' = touches + Len(lastOp'.rows)
    /\ UNCHANGED <<now, sweeps>>
    /\ UNCHANGED procVars
    /\ UNCHANGED sysVars

\* no handleMessage call is in flight
Idle == [pc |-> "idle"]

\* requests that may overlap
\* main() of index.ts, named by the statement it stands before; timer: the
\* 24-hour interval of line 85 is set
Launched == [pc |-> "initDatabase", timer |-> FALSE]
Serving == [pc |-> "running", timer |-> TRUE]
Exited == [pc |-> "exited", timer |-> FALSE]

\* table scheduled_tasks after CREATE TABLE
NoTasks == <<>>

\* the process ids the operating system hands out, each to one process
Pids == 1..MaxPid
FirstPid == 1

\* existsSync(PID_FILE) is false
NoFile == 0

\* a process that has not been started yet
NotStarted == [pc |-> "notStarted", sigterm |-> FALSE]

\* the first process has passed acquireLock and stands at pc
OneInstance(pc) ==
    [p \in Pids |-> IF p = FirstPid THEN [pc |-> pc, sigterm |-> FALSE]
                   ELSE NotStarted]

Requests == {"r1", "r2"}

-----------------------------------------------------------------------------
(* bot.ts: handleMessage, one step per stretch between two awaits.  The bot *)
(* handles one update at a time; timers fire while a call is suspended.     *)

\* ALLOWED_CHAT_IDS of the configuration the process is started with
AllowedAtStart == {"chat-1"}

\* table sessions after CREATE TABLE
NoSessions == <<>>

\* the session id the agent reports for a conversation
AgentSessionId == "session-1"

\* getSession(chatId): row?.session_id
getSession(rows, chatId) ==
    IF chatId \in DOMAIN rows THEN rows[chatId].session_id ELSE "undefined"

\* setSession(chatId, sessionId): INSERT ... ON CONFLICT(chat_id) DO UPDATE
setSession(rows, chatId, sessionId, t) ==
    [c \in DOMAIN rows \cup {chatId} |->
        IF c = chatId THEN [session_id |-> sessionId, updated_at |-> t]
        ELSE rows[c]]

\* clearSession(chatId): DELETE FROM sessions WHERE chat_id = ?
clearSession(rows, chatId) == [c \in DOMAIN rows \ {chatId} |-> rows[c]]

\* isAuthorised(chatId)
isAuthorised(chatId) == ALLOWED_CHAT_IDS = {} \/ chatId \in ALLOWED_CHAT_IDS

\* the call before has returned or thrown
TurnOver == turn.pc \in {"idle", "replied", "failed"}

\* memoryContext ? `${memoryContext}\n\n${rawText}` : rawText
FullMessage(memoryContext, rawText) ==
    IF memoryContext # "" THEN memoryContext \o "\n\n" \o rawText ELSE rawText

\* handleMessage of a chat that is not allowed: "Not authorised." and return
NotAuthorised(chatId, rawText) ==
    /\ TurnOver
    /\ ~isAuthorised(chatId)
    /\ turn' = [pc |-> "replied", chat |-> chatId, rawText |-> rawText,
                memoryContext |-> "", rows |-> <<>>, reinforced |-> {},
                fault |-> "none", fullMessage |-> "", resultText |-> "",
                created |-> 0, error |-> "none", agentCalled |-> FALSE]
    /\ lastOp' = [op |-> "reply", chat |-> chatId]
    /\ UNCHANGED <<now, memories, memories_fts, seq, touches, sweeps,
                   everTouched, touchedSince, held, sweeping>>
    /\ UNCHANGED sysVars

\* handleMessage up to the first await after the retrieval:
\* await buildMemoryContext(chatId, rawText), under the store fault given
HandleMessage(chatId, rawText, fault) ==
    /\ TurnOver
    /\ isAuthorised(chatId)
    /\ \E out \in buildMemoryContextUnder(DB, chatId, rawText, now, fault) :
          /\ Install(out.db)
          /\ lastOp' = [op |-> "buildMemoryContext", chat |-> chatId,
                        userMessage |-> rawText, text |-> out.text,
                        rows |-> out.rows, caught |-> out.caught,
                        fts |-> out.fts, recent |-> out.recent,
                        failedAt |-> out.failedAt]
          /\ turn' = [pc |-> IF out.threw THEN "failed" ELSE "typing",
                      chat |-> chatId, rawText |-> rawText,
                      memoryContext |-> out.text, rows |-> out.rows,
                      reinforced |-> {i \in DOMAIN memories :
                                        out.db.memories[i] # memories[i]},
                      fault |-> out.failedAt,
                      fullMessage |-> "", resultText |-> "", created |-> 0,
                      error |-> IF out.threw THEN "buildMemoryContext" ELSE "none",
                      agentCalled |-> FALSE,
                      existingSessionId |-> getSession(sessions, chatId)]
          /\ LET touched == RowIdsOf(out.rows) \cup
                                {i \in DOMAIN memories :
                                    out.db.memories[i] # memories[i]}
             IN  /\ everTouched' = everTouched \cup touched
                 /\ touchedSince' = touchedSince \cup touched
                 /\ touches' = touches + Cardinality(touched)
    /\ UNCHANGED <<now, sweeps, held, sweeping>>
    /\ UNCHANGED sysVars

\* runAgent(fullMessage, ...) is called: the context block goes to the agent
StartAgent ==
    /\ turn.pc = "typing"
    /\ turn' = [turn EXCEPT !.pc = "agent", !.agentCalled = TRUE,
                            !.fullMessage = FullMessage(turn.memoryContext, turn.rawText)]
    /\ lastOp' = [op |-> "runAgent", chat |-> turn.chat]
    /\ UNCHANGED <<now, memories, memories_fts, seq, touches, sweeps,
                   everTouched, touchedSince, held, sweeping>>
    /\ UNCHANGED sysVars

\* runAgent resolves: resultText = agentResult.text, and the session id it
\* reports is stored when it is not the one read before the call
AgentReturns(text) ==
    /\ turn.pc = "agent"
    /\ turn' = [turn EXCEPT !.pc = "save", !.resultText = text]
    /\ sessions' = IF AgentSessionId # turn.existingSessionId
                   THEN setSession(sessions, turn.chat, AgentSessionId, now)
                   ELSE sessions
    /\ lastOp' = [op |-> "agentResult", chat |-> turn.chat]
    /\ UNCHANGED <<now, memories, memories_fts, seq, touches, sweeps,
                   everTouched, touchedSince, held, sweeping>>
    /\ UNCHANGED <<proc, scheduled_tasks, runs, ALLOWED_CHAT_IDS,
                   PID_FILE, instances>>

\* runAgent rejects: the error leaves handleMessage through the finally
AgentThrows ==
    /\ turn.pc = "agent"
    /\ turn' = [turn EXCEPT !.pc = "failed", !.error = "runAgent"]
    /\ lastOp' = [op |-> "agentError", chat |-> turn.chat]
    /\ UNCHANGED <<now, memories, memories_fts, seq, touches, sweeps,
                   everTouched, touchedSince, held, sweeping>>
    /\ UNCHANGED sysVars

\* await saveConversationTurn(chatId, rawText, resultText), insertMemory
\* throwing (fault) or not
SaveTurn(fault) ==
    /\ turn.pc = "save"
    /\ LET out == saveConversationTurnUnder(DB, turn.chat, turn.rawText,
                                            turn.resultText, now, fault)
       IN  /\ Install(out.db)
           /\ turn' = IF out.threw
                      THEN [turn EXCEPT !.pc = "failed",
                                        !.error = "saveConversationTurn"]
                      ELSE [turn EXCEPT !.pc = "reply",
                                        !.created = IF out.db.seq > seq
                                                    THEN out.db.seq ELSE 0]
           /\ lastOp' = [op |-> "saveConversationTurn", chat |-> turn.chat,
                         userMsg |-> turn.rawText, assistantMsg |-> turn.resultText,
                         fault |-> fault, caught |-> out.caught,
                         threw |-> out.threw]
    /\ UNCHANGED <<now, touches, sweeps, everTouched, touchedSince, held, sweeping>>
    /\ UNCHANGED sysVars

\* ctx.reply(chunk) for the chunks of the result
Reply ==
    /\ turn.pc = "reply"
    /\ turn' = [turn EXCEPT !.pc = "replied"]
    /\ lastOp' = [op |-> "reply", chat |-> turn.chat]
    /\ UNCHANGED <<now, memories, memories_fts, seq, touches, sweeps,
                   everTouched, touchedSince, held, sweeping>>
    /\ UNCHANGED sysVars

\* the interval callback runDecaySweep, the store failing at fault
RunDecaySweepUnder(fault) ==
    /\ LET out == runDecaySweepUnder(DB, now, fault)
       IN  /\ Install(out.db)
           /\ lastOp' = [op |-> "runDecaySweep", fault |-> fault,
                         caught |-> out.caught, threw |-> out.threw]
    /\ sweeps' = sweeps + 1
    /\ touchedSince' = {}
    /\ UNCHANGED <<now, touches, everTouched>>
    /\ UNCHANGED procVars
    /\ UNCHANGED sysVars

-----------------------------------------------------------------------------
(* Spec: the store, the retriever and the classifier over a short horizon  *)

Init ==
    /\ now = 0
    /\ memories = EmptyDB.memories
    /\ memories_fts = EmptyDB.memories_fts
    /\ seq = EmptyDB.seq
    /\ lastOp = [op |-> "initDatabase"]
    /\ touches = 0
    /\ sweeps = 0
    /\ everTouched = {}
    /\ touchedSince = {}
    /\ turn = Idle
    /\ held = [r \in Requests |-> <<>>]
    /\ sweeping = {}
    /\ proc = Serving
    /\ scheduled_tasks = NoTasks
    /\ runs = {}
    /\ sessions = NoSessions
    /\ ALLOWED_CHAT_IDS = AllowedAtStart
    /\ PID_FILE = FirstPid
    /\ instances = OneInstance("running")

Next ==
    \/ Tick(MaxClock * TickSeconds)
    \/ \E c \in Chats, x \in Contents, s \in Sectors :
          seq < MaxId /\ InsertMemory(c, x, s)
    \/ \E c \in Chats, u \in UserMessages, a \in AssistantReplies :
          seq < MaxId /\ SaveConversationTurn(c, u, a)
    \/ \E id \in 1..MaxId : touches < MaxTouches /\ TouchMemory(id)
    \/ \E c \in Chats, m \in ContextMessages :
          BuildMemoryContext(c, m) /\ touches' <= MaxTouches
    \/ sweeps < MaxSweeps /\ RunDecaySweep
    \/ \E c \in Chats, q \in SearchQueries : SearchMemoriesFts(c, q)
    \/ \E c \in Chats : GetRecentMemories(c)
    \/ \E c \in Chats : GetMemoriesForChat(c)

Spec == Init /\ [][Next]_vars

-----------------------------------------------------------------------------
(* SpecTouch: one memory reinforced up to and beyond the ceiling *)

NextTouch ==
    \/ Tick(MaxTicks * TickSeconds)
    \/ \E s \in Sectors : seq = 0 /\ InsertMemory("chat-1", "User likes Rust", s)
    \/ touches < MaxReinforcements /\ TouchMemory(1)
    \/ sweeps < MaxSweeps /\ RunDecaySweep

SpecTouch == Init /\ [][NextTouch]_vars

-----------------------------------------------------------------------------
(* SpecDecay: memories stored at the first start, then the 24-hour interval *)
(* of index.ts: setInterval(runDecaySweep, 24 * 60 * 60 * 1000)            *)

IntervalSeconds == 24 * 60 * 60

\* the interval timer fires 24 hours after the previous sweep
IntervalTick ==
    /\ now + IntervalSeconds <= MaxDays * IntervalSeconds
    /\ now' = now + IntervalSeconds
    /\ Install(runDecaySweep(DB, now'))
    /\ lastOp' = [op |-> "runDecaySweep"]
    /\ sweeps' = sweeps + 1
    /\ touchedSince' = {}
    /\ UNCHANGED <<touches, everTouched>>
    /\ UNCHANGED procVars
    /\ UNCHANGED sysVars

\* at the first start a semantic and then an episodic memory are stored
StoreAtStart ==
    /\ now = 0
    /\ seq < 2
    /\ InsertMemory("chat-1", "User likes Rust",
                    IF seq = 0 THEN "semantic" ELSE "episodic")

\* the first memory is reinforced once in every interval, up to the first
\* interval in which it is not, and never after that
RecallFirst == touches = sweeps /\ TouchMemory(1)

NextDecay ==
    \/ StoreAtStart
    \/ RecallFirst
    \/ IntervalTick
    \/ \E q \in SearchQueries : SearchMemoriesFts("chat-1", q)
    \/ GetRecentMemories("chat-1")
    \/ GetMemoriesForChat("chat-1")

SpecDecay == Init /\ [][NextDecay]_vars

-----------------------------------------------------------------------------
(* SpecDaily: SpecDecay without the queries; the interval timer keeps     *)
(* firing for as long as the process lives                                 *)

\* the timer runs once both memories are stored
DailyTick == seq = 2 /\ IntervalTick

NextDaily ==
    \/ StoreAtStart
    \/ RecallFirst
    \/ DailyTick

SpecDaily == Init /\ [][NextDaily]_vars /\ WF_vars(DailyTick)

-----------------------------------------------------------------------------
(* SpecTurn: message turns one after the other, the store failing at some  *)
(* statements, the clock and the sweep timer running in between            *)

NextTurn ==
    \/ Tick(MaxClock * TickSeconds)
    \/ \E c \in Chats, m \in TurnMessages : NotAuthorised(c, m)
    \/ \E c \in Chats, m \in TurnMessages, f \in StoreFaults :
          seq < MaxId /\ HandleMessage(c, m, f) /\ touches' <= MaxTouches
    \/ StartAgent
    \/ \E a \in AssistantReplies : AgentReturns(a)
    \/ AgentThrows
    \/ \E f \in BOOLEAN : SaveTurn(f)
    \/ Reply
    \/ \E f \in SweepFaults : sweeps < MaxSweeps /\ RunDecaySweepUnder(f)

SpecTurn == Init /\ [][NextTurn]_vars

-----------------------------------------------------------------------------
(* SpecInsert: insertMemory called with any content and sector value *)

NextInsert ==
    \/ Tick(MaxClock * TickSeconds)
    \/ \E c \in Chats, x \in InsertContents, s \in InsertSectors :
          seq < MaxId /\ InsertMemory(c, x, s)
    \/ \E c \in Chats, q \in SearchQueries : SearchMemoriesFts(c, q)
    \/ \E c \in Chats : GetMemoriesForChat(c)

SpecInsert == Init /\ [][NextInsert]_vars

-----------------------------------------------------------------------------
(* SpecRace: requests that overlap, each reading the rows of the chat and   *)
(* then reinforcing them, their statements interleaved one by one           *)

\* reinforcements issued and still to be issued
Issued == touches + Len(held["r1"]) + Len(held["r2"])

\* const recentResults = getRecentMemories(chatId, 5): request r reads the
\* rows it is going to reinforce
RequestRead(r, chatId) ==
    /\ held[r] = <<>>
    /\ \E rows \in getRecentMemories(DB, chatId, RecentLimit) :
          /\ rows # <<>>
          /\ held' = [held EXCEPT ![r] = rows]
          /\ lastOp' = [op |-> "getRecentMemories", chat |-> chatId, rows |-> rows]
    /\ UNCHANGED <<now, memories, memories_fts, seq, touches, sweeps,
                   everTouched, touchedSince, turn, sweeping>>
    /\ UNCHANGED sysVars

\* one pass of the loop for (const m of combined) touchMemory(m.id)
RequestTouch(r) ==
    /\ held[r] # <<>>
    /\ Install(touchRow(DB, Head(held[r]), now))
    /\ held' = [held EXCEPT ![r] = Tail(@)]
    /\ lastOp' = [op |-> "touchMemory", id |-> Head(held[r]).id]
    /\ touches' = touches + 1
    /\ everTouched' = everTouched \cup (DOMAIN memories \cap {Head(held[r]).id})
    /\ touchedSince' = touchedSince \cup (DOMAIN memories \cap {Head(held[r]).id})
    /\ UNCHANGED <<now, sweeps, turn, sweeping>>
    /\ UNCHANGED sysVars

NextRace ==
    \/ seq = 0 /\ InsertMemory("chat-1", "User likes Rust", "semantic")
    \/ \E r \in Requests : Issued < MaxReinforcements /\ RequestRead(r, "chat-1")
    \/ \E r \in Requests : RequestTouch(r)

SpecRace == Init /\ [][NextRace]_vars

-----------------------------------------------------------------------------
(* SpecSweep: the daily sweep statement by statement.  runDecaySweep and    *)
(* decayMemories are synchronous: from the UPDATE to the DELETE the sweep    *)
(* keeps the thread, and no other callback starts in between.               *)

\* a sweep that awaits between its two statements
SweepAwaits == TRUE

\* whether runDecaySweep gives up the thread between its statements
SweepYields == FALSE

\* the event loop starts a callback when none is running
CallbackMayStart == sweeping = {} \/ SweepYields

\* the interval timer fires 24 hours after the tick before, and the sweep
\* runs its UPDATE: salience * 0.98 WHERE created_at < cutoff
IntervalUpdate ==
    /\ CallbackMayStart
    /\ now + IntervalSeconds <= MaxDays * IntervalSeconds
    /\ now' = now + IntervalSeconds
    /\ Install(decayUpdate(DB, now'))
    /\ sweeping' = sweeping \cup {sweeps + 1}
    /\ sweeps' = sweeps + 1
    /\ lastOp' = [op |-> "decayUpdate", sweep |-> sweeps + 1]
    /\ UNCHANGED <<touches, everTouched, touchedSince, turn, held>>
    /\ UNCHANGED sysVars

\* sweep k runs its DELETE and returns
SweepDelete(k) ==
    /\ k \in sweeping
    /\ Install(pruneDelete(DB))
    /\ sweeping' = sweeping \ {k}
    /\ lastOp' = [op |-> "pruneDelete", sweep |-> k]
    /\ touchedSince' = {}
    /\ UNCHANGED <<now, touches, sweeps, everTouched, turn, held>>
    /\ UNCHANGED sysVars

NextSweep ==
    \/ StoreAtStart
    \/ CallbackMayStart /\ RecallFirst
    \/ IntervalUpdate
    \/ \E k \in 1..MaxDays + 1 : SweepDelete(k)

SpecSweep == Init /\ [][NextSweep]_vars

-----------------------------------------------------------------------------
(* SpecMain: the process from its launch: main() of index.ts, then the     *)
(* 24-hour interval and the message turns                                  *)

\* the process is launched on an empty data directory
InitMain ==
    /\ now = 0
    /\ memories = EmptyDB.memories
    /\ memories_fts = EmptyDB.memories_fts
    /\ seq = EmptyDB.seq
    /\ lastOp = [op |-> "main"]
    /\ touches = 0
    /\ sweeps = 0
    /\ everTouched = {}
    /\ touchedSince = {}
    /\ turn = Idle
    /\ held = [r \in Requests |-> <<>>]
    /\ sweeping = {}
    /\ proc = Launched
    /\ scheduled_tasks = NoTasks
    /\ runs = {}
    /\ sessions = NoSessions
    /\ ALLOWED_CHAT_IDS = AllowedAtStart
    /\ PID_FILE = FirstPid
    /\ instances = OneInstance("starting")

\* initDatabase()
InitDatabase ==
    /\ proc.pc = "initDatabase"
    /\ proc' = [proc EXCEPT !.pc = "runDecaySweep"]
    /\ lastOp' = [op |-> "initDatabase"]
    /\ UNCHANGED <<now, memories, memories_fts, seq, touches, sweeps,
                   everTouched, touchedSince, scheduled_tasks, runs,
                   sessions, ALLOWED_CHAT_IDS,
                   PID_FILE, instances>>
    /\ UNCHANGED procVars

\* what an error leaving runDecaySweep does to the process: at the start it
\* rejects main(), whose catch exits; in the timer callback it is uncaught
AfterSweep(out, next) == IF out.threw THEN Exited ELSE next

\* runDecaySweep() at the start, the store failing at fault
StartupSweep(fault) ==
    /\ proc.pc = "runDecaySweep"
    /\ LET out == runDecaySweepUnder(DB, now, fault)
       IN  /\ Install(out.db)
           /\ lastOp' = [op |-> "runDecaySweep", fault |-> fault,
                         caught |-> out.caught, threw |-> out.threw]
           /\ proc' = AfterSweep(out, [proc EXCEPT !.pc = "setInterval"])
    /\ sweeps' = sweeps + 1
    /\ touchedSince' = {}
    /\ UNCHANGED <<now, touches, everTouched, scheduled_tasks, runs,
                   sessions, ALLOWED_CHAT_IDS,
                   PID_FILE, instances>>
    /\ UNCHANGED procVars

\* setInterval(runDecaySweep, 24 * 60 * 60 * 1000)
SetInterval ==
    /\ proc.pc = "setInterval"
    /\ proc' = [pc |-> "createBot", timer |-> TRUE]
    /\ lastOp' = [op |-> "setInterval"]
    /\ UNCHANGED <<now, memories, memories_fts, seq, touches, sweeps,
                   everTouched, touchedSince, scheduled_tasks, runs,
                   sessions, ALLOWED_CHAT_IDS,
                   PID_FILE, instances>>
    /\ UNCHANGED procVars

\* cleanupOldUploads(), createBot(), initScheduler(sender), the signal handlers
CreateBot ==
    /\ proc.pc = "createBot"
    /\ proc' = [proc EXCEPT !.pc = "botStart"]
    /\ lastOp' = [op |-> "createBot"]
    /\ UNCHANGED <<now, memories, memories_fts, seq, touches, sweeps,
                   everTouched, touchedSince, scheduled_tasks, runs,
                   sessions, ALLOWED_CHAT_IDS,
                   PID_FILE, instances>>
    /\ UNCHANGED procVars

\* await bot.start(...): from here on the bot handles messages
BotStart ==
    /\ proc.pc = "botStart"
    /\ proc' = [proc EXCEPT !.pc = "running"]
    /\ lastOp' = [op |-> "botStart"]
    /\ UNCHANGED <<now, memories, memories_fts, seq, touches, sweeps,
                   everTouched, touchedSince, scheduled_tasks, runs,
                   sessions, ALLOWED_CHAT_IDS,
                   PID_FILE, instances>>
    /\ UNCHANGED procVars

\* the interval fires 24 hours after it was set or last fired
IntervalCallback(fault) ==
    /\ proc.pc = "running"
    /\ proc.timer
    /\ now + IntervalSeconds <= MaxTicks * IntervalSeconds
    /\ now' = now + IntervalSeconds
    /\ LET out == runDecaySweepUnder(DB, now', fault)
       IN  /\ Install(out.db)
           /\ lastOp' = [op |-> "runDecaySweep", fault |-> fault,
                         caught |-> out.caught, threw |-> out.threw]
           /\ proc' = AfterSweep(out, proc)
    /\ sweeps' = sweeps + 1
    /\ touchedSince' = {}
    /\ UNCHANGED <<touches, everTouched, scheduled_tasks, runs,
                   sessions, ALLOWED_CHAT_IDS,
                   PID_FILE, instances>>
    /\ UNCHANGED procVars

\* SIGINT or SIGTERM: shutdown() ends in process.exit(0)
Shutdown ==
    /\ proc.pc = "running"
    /\ proc' = Exited
    /\ lastOp' = [op |-> "shutdown"]
    /\ UNCHANGED <<now, memories, memories_fts, seq, touches, sweeps,
                   everTouched, touchedSince, scheduled_tasks, runs,
                   sessions, ALLOWED_CHAT_IDS,
                   PID_FILE, instances>>
    /\ UNCHANGED procVars

\* the bot's handlers run once bot.start() polls
BotHandles ==
    /\ proc.pc = "running"
    /\ \/ \E c \in Chats, m \in TurnMessages : NotAuthorised(c, m)
       \/ \E c \in Chats, m \in TurnMessages :
             seq < MaxId /\ HandleMessage(c, m, "none") /\ touches' <= MaxTouches
       \/ StartAgent
       \/ \E a \in AssistantReplies : AgentReturns(a)
       \/ SaveTurn(FALSE)
       \/ Reply

NextMain ==
    \/ InitDatabase
    \/ \E f \in SweepFaults : StartupSweep(f)
    \/ SetInterval
    \/ CreateBot
    \/ BotStart
    \/ \E f \in SweepFaults : IntervalCallback(f)
    \/ Shutdown
    \/ BotHandles

SpecMain == InitMain /\ [][NextMain]_vars

-----------------------------------------------------------------------------
(* SpecResweep: decayMemories called again right after it has run *)

NextResweep ==
    \/ Tick(MaxTicks * TickSeconds)
    \/ \E x \in Contents, s \in Sectors :
          seq < MaxId /\ InsertMemory("chat-1", x, s)
    \/ \E id \in 1..MaxId : touches < MaxTouches /\ TouchMemory(id)
    \/ sweeps < MaxResweeps /\ RunDecaySweep

SpecResweep == Init /\ [][NextResweep]_vars

-----------------------------------------------------------------------------
(* SpecRecord: saveConversationTurn over messages short and long, commands *)
(* and plain text, with and without the trigger phrases                    *)

NextRecord ==
    \E c \in Chats, u \in RecordMessages, a \in RecordReplies :
        seq < MaxId /\ SaveConversationTurn(c, u, a)

SpecRecord == Init /\ [][NextRecord]_vars

-----------------------------------------------------------------------------
(* SpecReuse: two memories stored at the first start and swept daily until *)
(* they are pruned; then their ids are reinforced and new memories stored  *)

\* some id handed out earlier is no longer stored
SomeStale == \E id \in 1..seq : id \notin DOMAIN memories

\* a memory stored after a prune
StoreLater ==
    /\ SomeStale
    /\ seq < MaxId + 1
    /\ \E s \in Sectors : InsertMemory("chat-1", "User likes Rust", s)

\* touchMemory(id) with an id read before the prune
ReinforceStale(id) ==
    /\ id <= seq
    /\ id \notin DOMAIN memories
    /\ touches < MaxTouches
    /\ TouchMemory(id)

NextReuse ==
    \/ StoreAtStart
    \/ IntervalTick
    \/ StoreLater
    \/ \E id \in 1..MaxId : ReinforceStale(id)
    \/ GetMemoriesForChat("chat-1")

SpecReuse == Init /\ [][NextReuse]_vars

-----------------------------------------------------------------------------
(* db.ts: scheduled tasks; scheduler.ts: the 60-second poll *)

TaskIds == {"task-1", "task-2"}
TaskStatuses == {"active", "paused"}

\* setInterval(..., 60_000)
PollSeconds == 60

\* computeNextRun(cronExpr) for the schedule "* * * * *": the next full minute
computeNextRun(t) == (t \div 60 + 1) * 60

\* createTask(task): last_run and last_result are left NULL
createTask(tasks, id, chatId, nextRun, status, t) ==
    [i \in DOMAIN tasks \cup {id} |->
        IF i = id
        THEN [id |-> id, chat_id |-> chatId, prompt |-> "Good morning briefing",
              schedule |-> "* * * * *", next_run |-> nextRun,
              last_run |-> "NULL", last_result |-> "NULL",
              status |-> status, created_at |-> t]
        ELSE tasks[i]]

\* setTaskStatus(id, status)
setTaskStatus(tasks, id, status) ==
    [i \in DOMAIN tasks |->
        IF i = id THEN [tasks[i] EXCEPT !.status = status] ELSE tasks[i]]

\* deleteTask(id)
deleteTask(tasks, id) == [i \in DOMAIN tasks \ {id} |-> tasks[i]]

\* WHERE status = 'active' AND next_run <= ?, bound to the function's own
\* Math.floor(Date.now() / 1000): the function declares no parameter
DueAt(row, nowArg, clock) == row.status = "active" /\ row.next_run <= clock

\* getDueTasks(): the rows in any order (no ORDER BY); nowArg is what the
\* caller passes, clock the time at the call
getDueTasks(tasks, nowArg, clock) ==
    LET ids == {i \in DOMAIN tasks : DueAt(tasks[i], nowArg, clock)}
    IN  {[k \in DOMAIN o |-> tasks[o[k]]] : o \in Orderings(ids)}

\* updateTaskAfterRun(id, result, nextRun): result.slice(0, 500) throws a
\* TypeError when result is not a string, before the UPDATE runs
updateTaskAfterRun(tasks, id, result, nextRun, t) ==
    IF result.type # "string"
    THEN [tasks |-> tasks, threw |-> TRUE]
    ELSE [tasks |-> [i \in DOMAIN tasks |->
                        IF i = id
                        THEN [tasks[i] EXCEPT !.last_run = t,
                                              !.last_result = Slice(result.value, 500),
                                              !.next_run = nextRun]
                        ELSE tasks[i]],
          threw |-> FALSE]

\* the loop of runDueTasks from the k-th due task on: the agent runs, then
\* updateTaskAfterRun(task.id, lastRun, nextRun, ...) is called with the
\* number lastRun where db.ts expects the result text; the call in the catch
\* block passes the same arguments, and what it throws leaves runDueTasks
RECURSIVE runDueLoop(_, _, _, _, _)
runDueLoop(tasks, due, k, ran, t) ==
    IF k > Len(due) THEN [tasks |-> tasks, ran |-> ran, threw |-> FALSE]
    ELSE LET id == due[k].id
             lastRun == [type |-> "number", value |-> t]
             try == updateTaskAfterRun(tasks, id, lastRun, computeNextRun(t), t)
             catch == updateTaskAfterRun(tasks, id, lastRun, computeNextRun(t), t)
         IN  IF ~try.threw
             THEN runDueLoop(try.tasks, due, k + 1, Append(ran, id), t)
             ELSE IF ~catch.threw
                  THEN runDueLoop(catch.tasks, due, k + 1, Append(ran, id), t)
                  ELSE [tasks |-> tasks, ran |-> Append(ran, id), threw |-> TRUE]

\* runDueTasks(send) over the rows getDueTasks returned
runDueTasks(tasks, due, t) == runDueLoop(tasks, due, 1, <<>>, t)

\* the next_run values a task is created or found with
NextRuns == {now, now + 1, now + PollSeconds}

\* /schedule create and the db API: createTask with a fresh id
CreateTask(id, chatId, nextRun, status) ==
    /\ id \notin DOMAIN scheduled_tasks
    /\ scheduled_tasks' = createTask(scheduled_tasks, id, chatId, nextRun, status, now)
    /\ lastOp' = [op |-> "createTask", id |-> id]
    /\ UNCHANGED <<now, memories, memories_fts, seq, touches, sweeps,
                   everTouched, touchedSince, proc, runs,
                   sessions, ALLOWED_CHAT_IDS,
                   PID_FILE, instances>>
    /\ UNCHANGED procVars

\* /schedule pause, /schedule resume
SetTaskStatus(id, status) ==
    /\ scheduled_tasks' = setTaskStatus(scheduled_tasks, id, status)
    /\ lastOp' = [op |-> "setTaskStatus", id |-> id, status |-> status]
    /\ UNCHANGED <<now, memories, memories_fts, seq, touches, sweeps,
                   everTouched, touchedSince, proc, runs,
                   sessions, ALLOWED_CHAT_IDS,
                   PID_FILE, instances>>
    /\ UNCHANGED procVars

\* /schedule delete
DeleteTask(id) ==
    /\ scheduled_tasks' = deleteTask(scheduled_tasks, id)
    /\ lastOp' = [op |-> "deleteTask", id |-> id]
    /\ UNCHANGED <<now, memories, memories_fts, seq, touches, sweeps,
                   everTouched, touchedSince, proc, runs,
                   sessions, ALLOWED_CHAT_IDS,
                   PID_FILE, instances>>
    /\ UNCHANGED procVars

\* the wall clock passes a second boundary
ClockRolls ==
    /\ now % PollSeconds < MaxClock
    /\ now' = now + 1
    /\ lastOp' = [op |-> "tick"]
    /\ UNCHANGED <<memories, memories_fts, seq, touches, sweeps,
                   everTouched, touchedSince>>
    /\ UNCHANGED procVars
    /\ UNCHANGED sysVars

\* getDueTasks(now) called with a time read at most a second before
GetDueTasks(nowArg) ==
    /\ \E rows \in getDueTasks(scheduled_tasks, nowArg, now) :
          lastOp' = [op |-> "getDueTasks", now |-> nowArg, clock |-> now,
                     rows |-> rows]
    /\ UNCHANGED <<now, memories, memories_fts, seq, touches, sweeps,
                   everTouched, touchedSince>>
    /\ UNCHANGED procVars
    /\ UNCHANGED sysVars

\* the poll fires 60 seconds on: runDueTasks reads the time, then getDueTasks
\* reads it again, late seconds after
SchedulerTick(late) ==
    /\ now + PollSeconds + late <= MaxTicks * PollSeconds + MaxClock
    /\ now' = now + PollSeconds + late
    /\ \E due \in getDueTasks(scheduled_tasks, now + PollSeconds, now') :
          LET out == runDueTasks(scheduled_tasks, due, now')
          IN  /\ scheduled_tasks' = out.tasks
              /\ lastOp' = [op |-> "runDueTasks", now |-> now + PollSeconds,
                            clock |-> now', rows |-> due, ran |-> out.ran,
                            threw |-> out.threw]
    /\ UNCHANGED <<memories, memories_fts, seq, touches, sweeps,
                   everTouched, touchedSince, proc, runs,
                   sessions, ALLOWED_CHAT_IDS,
                   PID_FILE, instances>>
    /\ UNCHANGED procVars

NextTasks ==
    \/ \E id \in TaskIds, r \in NextRuns, s \in TaskStatuses :
          CreateTask(id, "chat-1", r, s)
    \/ \E id \in TaskIds, s \in TaskStatuses : SetTaskStatus(id, s)
    \/ \E id \in TaskIds : DeleteTask(id)
    \/ ClockRolls
    \/ \E a \in {now - 1, now} : a >= 0 /\ GetDueTasks(a)
    \/ \E late \in 0..1 : SchedulerTick(late)

SpecTasks == Init /\ [][NextTasks]_vars

-----------------------------------------------------------------------------
(* bot.ts: splitMessage, and SpecSplit: it applied to short texts *)

\* text.split("\n")
RECURSIVE SplitLines(_)
SplitLines(s) ==
    LET nl == {i \in 1..Len(s) : SubSeq(s, i, i) = "\n"}
    IN  IF nl = {} THEN <<s>>
        ELSE LET i == CHOOSE k \in nl : \A j \in nl : k <= j
             IN  <<SubSeq(s, 1, i - 1)>> \o SplitLines(SubSeq(s, i + 1, Len(s)))

\* a length test that lets one character more through
TooLongByTwo(s, limit) == Len(s) > limit + 1

\* s.length > limit
TooLong(s, limit) == Len(s) > limit

\* while (remaining.length > limit) { chunks.push(remaining.slice(0, limit));
\*                                    remaining = remaining.slice(limit) }
RECURSIVE HardSplit(_, _, _)
HardSplit(chunks, remaining, limit) ==
    IF TooLong(remaining, limit)
    THEN HardSplit(Append(chunks, SubSeq(remaining, 1, limit)),
                   SubSeq(remaining, limit + 1, Len(remaining)), limit)
    ELSE [chunks |-> chunks, current |-> remaining]

\* one pass of the for loop over the lines
SplitLine(st, line, limit) ==
    IF TooLong(line, limit)
    THEN HardSplit(IF Len(st.current) > 0 THEN Append(st.chunks, st.current)
                   ELSE st.chunks,
                   line, limit)
    ELSE LET candidate == IF Len(st.current) = 0 THEN line
                          ELSE st.current \o "\n" \o line
         IN  IF TooLong(candidate, limit)
             THEN [chunks |-> Append(st.chunks, st.current), current |-> line]
             ELSE [chunks |-> st.chunks, current |-> candidate]

\* for (const line of lines) ...
RECURSIVE SplitLoop(_, _, _, _)
SplitLoop(st, lines, k, limit) ==
    IF k > Len(lines) THEN st
    ELSE SplitLoop(SplitLine(st, lines[k], limit), lines, k + 1, limit)

\* splitMessage(text, limit)
splitMessage(text, limit) ==
    IF ~TooLong(text, limit) THEN <<text>>
    ELSE LET st == SplitLoop([chunks |-> <<>>, current |-> ""],
                             SplitLines(text), 1, limit)
         IN  IF Len(st.current) > 0 THEN Append(st.chunks, st.current)
             ELSE st.chunks

\* the characters of the texts explored
TextChars == {"a", "b", "\n"}

\* the texts of at most n characters
RECURSIVE TextsUpTo(_)
TextsUpTo(n) ==
    IF n = 0 THEN {""}
    ELSE LET shorter == TextsUpTo(n - 1)
         IN  shorter \cup {s \o c : s \in shorter, c \in TextChars}

Texts == TextsUpTo(MaxTextLen)
Limits == 1..MaxLimit

\* splitMessage(formatted) before the reply is sent
SplitMessage(text, limit) ==
    /\ lastOp' = [op |-> "splitMessage", text |-> text, limit |-> limit,
                  chunks |-> splitMessage(text, limit)]
    /\ UNCHANGED <<now, memories, memories_fts, seq, touches, sweeps,
                   everTouched, touchedSince>>
    /\ UNCHANGED procVars
    /\ UNCHANGED sysVars

NextSplit == \E text \in Texts, limit \in Limits : SplitMessage(text, limit)

SpecSplit == Init /\ [][NextSplit]_vars

-----------------------------------------------------------------------------
(* SpecQuery: buildMemoryContext asked with words that begin, end or equal *)
(* the words of the stored contents                                        *)

NextQuery ==
    \/ Tick(MaxClock * TickSeconds)
    \/ \E c \in Chats, x \in Contents, s \in Sectors :
          seq < MaxId /\ InsertMemory(c, x, s)
    \/ \E c \in Chats, m \in QueryMessages :
          BuildMemoryContext(c, m) /\ touches' <= MaxTouches

SpecQuery == Init /\ [][NextQuery]_vars

-----------------------------------------------------------------------------
(* SpecBlock: one chat stores as many memories as both queries together    *)
(* may return, one per clock tick, and asks for its context                *)

\* LIMIT 3 of the keyword search plus LIMIT 5 of the recency lookup
BlockSize == FtsLimit + RecentLimit

\* a memory is stored, the only one of its second, before the chat asks
StoreThisTick(content) ==
    /\ touches = 0
    /\ seq < BlockSize
    /\ \A i \in DOMAIN memories : memories[i].created_at # now
    /\ InsertMemory("chat-1", content, "semantic")

\* the clock moves on once the memory of this second is stored
TickAfterStore ==
    /\ touches = 0
    /\ \E i \in DOMAIN memories : memories[i].created_at = now
    /\ Tick(BlockSize * TickSeconds)

\* the chat asks for its context once
AskOnce ==
    /\ touches = 0
    /\ BuildMemoryContext("chat-1", "tell me about rust")

NextBlock ==
    \/ TickAfterStore
    \/ \E x \in BlockContents : StoreThisTick(x)
    \/ AskOnce

SpecBlock == Init /\ [][NextBlock]_vars


(***************************************************************************)
(* scheduler.ts: runDueTasks as the event loop runs it.  The poll callback  *)
(* reads the due rows and runs up to the first await; the awaited agent     *)
(* settles in a later step, and setInterval fires again meanwhile.          *)
(***************************************************************************)

\* the task a runDueTasks call is awaiting the agent for
Executing(r) == r.due[r.k].id

\* one call of runDueTasks: the time it read, the rows getDueTasks returned
\* and the position of the for loop
StartedRun(t, due) == [at |-> t, due |-> due, k |-> 1]

\* the rest of one iteration once runAgent has settled at time t: the update
\* in the try block, the one in the catch block, then the next iteration or
\* the end of the call
AfterAgent(tasks, r, t) ==
    LET id == Executing(r)
        lastRun == [type |-> "number", value |-> t]
        try == updateTaskAfterRun(tasks, id, lastRun, computeNextRun(t), t)
        catch == updateTaskAfterRun(tasks, id, lastRun, computeNextRun(t), t)
        out == IF ~try.threw THEN try ELSE catch
    IN  [tasks |-> out.tasks, threw |-> out.threw,
         next |-> IF ~out.threw /\ r.k < Len(r.due)
                  THEN {[r EXCEPT !.k = r.k + 1]}
                  ELSE {}]

\* the setInterval callback of initScheduler, 60 seconds after the last one
PollFires ==
    /\ now + PollSeconds <= MaxTicks * PollSeconds + MaxClock
    /\ now' = now + PollSeconds
    /\ \E due \in getDueTasks(scheduled_tasks, now', now') :
          /\ runs' = IF due = <<>> THEN runs
                     ELSE runs \cup {StartedRun(now', due)}
          /\ lastOp' = [op |-> "runDueTasks", now |-> now', rows |-> due]
    /\ UNCHANGED <<memories, memories_fts, seq, touches, sweeps,
                   everTouched, touchedSince, scheduled_tasks, proc,
                   sessions, ALLOWED_CHAT_IDS,
                   PID_FILE, instances>>
    /\ UNCHANGED procVars

\* runAgent settles for the call r
AgentSettles(r) ==
    /\ r \in runs
    /\ LET out == AfterAgent(scheduled_tasks, r, now)
       IN  /\ scheduled_tasks' = out.tasks
           /\ runs' = (runs \ {r}) \cup out.next
           /\ lastOp' = [op |-> "agentSettled", id |-> Executing(r),
                         at |-> r.at, threw |-> out.threw]
    /\ UNCHANGED <<now, memories, memories_fts, seq, touches, sweeps,
                   everTouched, touchedSince, proc,
                   sessions, ALLOWED_CHAT_IDS,
                   PID_FILE, instances>>
    /\ UNCHANGED procVars

NextOverlap ==
    \/ \E id \in TaskIds, r \in NextRuns, s \in TaskStatuses :
          CreateTask(id, "chat-1", r, s)
    \/ PollFires
    \/ \E r \in runs : AgentSettles(r)

SpecOverlap == Init /\ [][NextOverlap]_vars


-----------------------------------------------------------------------------
(* SpecRestart: the process is stopped and started again while time passes *)

\* main() is entered again by a new process; the database file is kept
Restart ==
    /\ proc.pc = "exited"
    /\ sweeps <= MaxResweeps
    /\ proc' = Launched
    /\ lastOp' = [op |-> "main"]
    /\ UNCHANGED <<now, memories, memories_fts, seq, touches, sweeps,
                   everTouched, touchedSince, scheduled_tasks, runs,
                   sessions, ALLOWED_CHAT_IDS,
                   PID_FILE, instances>>
    /\ UNCHANGED procVars

\* a handled message stores a memory while the bot is running
RunningStores(content) ==
    /\ proc.pc = "running"
    /\ seq < MaxId
    /\ InsertMemory("chat-1", content, "semantic")

NextRestart ==
    \/ InitDatabase
    \/ StartupSweep("none")
    \/ SetInterval
    \/ CreateBot
    \/ BotStart
    \/ IntervalCallback("none")
    \/ Shutdown
    \/ Restart
    \/ \E x \in Contents : RunningStores(x)
    \/ Tick(MaxTicks * IntervalSeconds)

SpecRestart == InitMain /\ [][NextRestart]_vars


-----------------------------------------------------------------------------
(* SpecPartial: handleMessage builds the context over a store that already  *)
(* holds several memories, the store failing at any statement               *)

NextPartial ==
    \/ Tick(MaxClock * TickSeconds)
    \/ \E x \in BlockContents :
          seq < MaxId /\ InsertMemory("chat-1", x, "semantic")
    \/ \E m \in QueryMessages, f \in StoreFaults :
          HandleMessage("chat-1", m, f) /\ touches' <= MaxTouches
    \/ StartAgent
    \/ AgentThrows

SpecPartial == Init /\ [][NextPartial]_vars


-----------------------------------------------------------------------------
(* SpecAuth: the handlers of createBot for allowed and other chats, the     *)
(* process restarted with another allow-list over the same database         *)

\* the allow-lists a start may find in .env
AllowLists == {{}, AllowedAtStart}

\* the process is stopped and started with ALLOWED_CHAT_IDS = list; calls in
\* flight are lost, the database file is kept
Reconfigure(list) ==
    /\ ALLOWED_CHAT_IDS' = list
    /\ turn' = Idle
    /\ lastOp' = [op |-> "main"]
    /\ UNCHANGED <<now, memories, memories_fts, seq, touches, sweeps,
                   everTouched, touchedSince, held, sweeping, proc,
                   scheduled_tasks, runs, sessions, PID_FILE, instances>>

\* bot.command(["newchat", "forget"]): clearSession(chatId), "Session cleared."
NewChat(chatId) ==
    /\ sessions' = clearSession(sessions, chatId)
    /\ lastOp' = [op |-> "newchat", chat |-> chatId]
    /\ UNCHANGED <<now, memories, memories_fts, seq, touches, sweeps,
                   everTouched, touchedSince, proc, scheduled_tasks, runs,
                   ALLOWED_CHAT_IDS, PID_FILE, instances>>
    /\ UNCHANGED procVars

\* /memory, /voice, /schedule and the voice, photo, document and video
\* handlers for a chat that is not allowed: "Not authorised." and return
CommandRefused(chatId) ==
    /\ ~isAuthorised(chatId)
    /\ lastOp' = [op |-> "reply", chat |-> chatId]
    /\ UNCHANGED <<now, memories, memories_fts, seq, touches, sweeps,
                   everTouched, touchedSince>>
    /\ UNCHANGED procVars
    /\ UNCHANGED sysVars

\* /schedule create for an allowed chat
ScheduleCreate(chatId, id) ==
    /\ isAuthorised(chatId)
    /\ CreateTask(id, chatId, computeNextRun(now), "active")

NextAuth ==
    \/ \E list \in AllowLists : Reconfigure(list)
    \/ \E c \in Chats, m \in UserMessages : NotAuthorised(c, m)
    \/ \E c \in Chats, m \in UserMessages :
          seq < MaxId /\ HandleMessage(c, m, "none") /\ touches' <= MaxTouches
    \/ StartAgent
    \/ \E a \in AssistantReplies : AgentReturns(a)
    \/ SaveTurn(FALSE)
    \/ Reply
    \/ \E c \in Chats : NewChat(c)
    \/ \E c \in Chats : CommandRefused(c)
    \/ \E c \in Chats, id \in TaskIds : ScheduleCreate(c, id)

SpecAuth == Init /\ [][NextAuth]_vars


-----------------------------------------------------------------------------
(* SpecLock: index.ts acquireLock, the signal handlers and releaseLock, for *)
(* several processes started over one store directory                       *)

\* process.kill(pid, 0) does not throw
Alive(q) == q \in Pids /\ instances[q].pc \notin {"notStarted", "exited"}

\* what the steps of the lock leave alone
LockFrame ==
    /\ UNCHANGED <<now, memories, memories_fts, seq, touches, sweeps,
                   everTouched, touchedSince, proc, scheduled_tasks, runs,
                   sessions, ALLOWED_CHAT_IDS>>
    /\ UNCHANGED procVars

\* main() of a new process p enters acquireLock: it reads the PID file and,
\* when the pid in it is alive, sends it SIGTERM; it does not wait
AcquireLock(p) ==
    /\ instances[p].pc = "notStarted"
    /\ instances' = [q \in Pids |->
                        IF q = p THEN [pc |-> "writeFile", sigterm |-> FALSE]
                        ELSE IF q = PID_FILE /\ Alive(q)
                             THEN [instances[q] EXCEPT !.sigterm = TRUE]
                             ELSE instances[q]]
    /\ lastOp' = [op |-> "acquireLock", pid |-> p, found |-> PID_FILE]
    /\ UNCHANGED PID_FILE
    /\ LockFrame

\* writeFileSync(PID_FILE, String(process.pid))
WriteLock(p) ==
    /\ instances[p].pc = "writeFile"
    /\ PID_FILE' = p
    /\ instances' = [instances EXCEPT ![p].pc = "starting"]
    /\ lastOp' = [op |-> "writeFile", pid |-> p]
    /\ LockFrame

\* main() goes on to process.once('SIGTERM', ...) and bot.start
RegisterHandlers(p) ==
    /\ instances[p].pc = "starting"
    /\ instances' = [instances EXCEPT ![p].pc = "running"]
    /\ lastOp' = [op |-> "botStart", pid |-> p]
    /\ UNCHANGED PID_FILE
    /\ LockFrame

\* releaseLock(): unlinkSync(PID_FILE) when it exists, whatever pid it holds
releaseLock(file) == NoFile

\* SIGTERM reaches a process whose handler is registered: shutdown() runs
\* stopScheduler() and releaseLock(), then awaits bot.stop()
ShutdownHandler(p) ==
    /\ instances[p].pc = "running"
    /\ instances[p].sigterm
    /\ PID_FILE' = releaseLock(PID_FILE)
    /\ instances' = [instances EXCEPT ![p] = [pc |-> "stopping", sigterm |-> FALSE]]
    /\ lastOp' = [op |-> "shutdown", pid |-> p]
    /\ LockFrame

\* bot.stop() resolves: process.exit(0)
ExitProcess(p) ==
    /\ instances[p].pc = "stopping"
    /\ instances' = [instances EXCEPT ![p] = [pc |-> "exited", sigterm |-> FALSE]]
    /\ lastOp' = [op |-> "exit", pid |-> p]
    /\ UNCHANGED PID_FILE
    /\ LockFrame

\* SIGTERM reaches a process that has no handler for it (not yet registered,
\* or used up by process.once): the process ends and the file stays
Terminated(p) ==
    /\ instances[p].pc \in {"writeFile", "starting", "stopping"}
    /\ instances[p].sigterm
    /\ instances' = [instances EXCEPT ![p] = [pc |-> "exited", sigterm |-> FALSE]]
    /\ lastOp' = [op |-> "terminated", pid |-> p]
    /\ UNCHANGED PID_FILE
    /\ LockFrame

\* the user or the service manager sends SIGTERM to a live process
Sigterm(p) ==
    /\ Alive(p)
    /\ ~instances[p].sigterm
    /\ instances' = [instances EXCEPT ![p].sigterm = TRUE]
    /\ lastOp' = [op |-> "SIGTERM", pid |-> p]
    /\ UNCHANGED PID_FILE
    /\ LockFrame

NextLock ==
    \/ \E p \in Pids : AcquireLock(p)
    \/ \E p \in Pids : WriteLock(p)
    \/ \E p \in Pids : RegisterHandlers(p)
    \/ \E p \in Pids : ShutdownHandler(p)
    \/ \E p \in Pids : ExitProcess(p)
    \/ \E p \in Pids : Terminated(p)
    \/ \E p \in Pids : Sigterm(p)

SpecLock == Init /\ [][NextLock]_vars

-----------------------------------------------------------------------------
(* Properties *)

QueryOps == {"searchMemoriesFts", "getRecentMemories", "getMemoriesForChat"}

RowIds(rows) == {rows[k].id : k \in DOMAIN rows}

\* C1: whatever inserts, reinforcements and sweeps have run, every stored
\* memory's salience lies in [0.0, 5.0].
C1_SalienceInRange ==
    \A i \in DOMAIN memories :
        memories[i].salience >= 0 /\ memories[i].salience <= 5000000

\* C1 witness: a memory at the ceiling has just been reinforced again.
C1_Witness ==
    /\ lastOp.op = "touchMemory"
    /\ touches > 40
    /\ \E i \in DOMAIN memories : memories[i].salience = 5000000

\* C2: no stored memory has salience below 0.1 once a sweep has completed,
\* and no search, recency or listing query returns a row with salience below
\* 0.1 or a row that a sweep has deleted.
C2_NoTombstone ==
    /\ \A i \in DOMAIN memories : memories[i].salience >= 100000
    /\ lastOp.op \in QueryOps =>
          \A k \in DOMAIN lastOp.rows :
              /\ lastOp.rows[k].salience >= 100000
              /\ lastOp.rows[k].id \in DOMAIN memories

\* C2 witness: a memory has decayed below the floor and been deleted, and a
\* query has run afterwards on the memory that is left.
C2_Witness ==
    /\ lastOp.op \in QueryOps
    /\ seq = 2
    /\ 2 \notin DOMAIN memories
    /\ RowIds(lastOp.rows) = {1}

\* C3: every query for owner A returns only A's memories, and
\* buildMemoryContext for A changes no memory of another owner.
C3_Step ==
    /\ lastOp'.op \in QueryOps \cup {"buildMemoryContext"} =>
          \A k \in DOMAIN lastOp'.rows : lastOp'.rows[k].chat_id = lastOp'.chat
    /\ lastOp'.op = "buildMemoryContext" =>
          \A i \in DOMAIN memories :
              memories[i].chat_id # lastOp'.chat =>
                  i \in DOMAIN memories' /\ memories'[i] = memories[i]

C3_NoCrossOwnerLeak == [][C3_Step]_vars

\* C3 witness: two owners have a memory each and a context was built from,
\* and reinforced, the memory of one of them.
C3_Witness ==
    /\ lastOp.op = "buildMemoryContext"
    /\ Len(lastOp.rows) = 1
    /\ \E i, j \in DOMAIN memories : memories[i].chat_id # memories[j].chat_id

\* C4: the index holds exactly the content of the stored memories: no entry
\* for an id that is not in the table, and every stored memory is returned by
\* a search of its owner for each token of its own content (unless the LIMIT
\* cuts the list); a search for "rust" returns "User likes Rust".
C4_IndexConsistent ==
    /\ \A f \in memories_fts :
          f.rowid \in DOMAIN memories /\ f.content = memories[f.rowid].content
    /\ \A i \in DOMAIN memories :
          \A k \in DOMAIN TokensOf(memories[i].content) :
              \A rows \in searchMemoriesFts(DB, memories[i].chat_id,
                                            TokensOf(memories[i].content)[k],
                                            Cardinality(DOMAIN memories)) :
                  i \in RowIds(rows)
    /\ (lastOp.op = "searchMemoriesFts" /\ lastOp.query = "rust*") =>
          \A i \in DOMAIN memories :
              (/\ memories[i].content = "User likes Rust"
               /\ memories[i].chat_id = lastOp.chat
               /\ Cardinality(OwnedIds(DB, lastOp.chat)) <= FtsLimit)
              => i \in RowIds(lastOp.rows)

\* C4 witness: after an insert, a reinforcement, decays and the deletion of
\* another memory, a search for "rust" has returned the memory that is left.
C4_Witness ==
    /\ lastOp.op = "searchMemoriesFts"
    /\ lastOp.query = "rust*"
    /\ RowIds(lastOp.rows) = {1}
    /\ 1 \in everTouched
    /\ seq = 2
    /\ 2 \notin DOMAIN memories
    /\ memories[1].salience < 1000000

\* C5: touchMemory(id) on a stored memory sets accessed_at to the current
\* time and salience to min(salience + 0.1, 5.0): higher than before when it
\* was below 5.0, and 5.0 when it was 5.0.
C5_Step ==
    (lastOp'.op = "touchMemory" /\ lastOp'.id \in DOMAIN memories) =>
        LET before == memories[lastOp'.id]
            after == memories'[lastOp'.id]
        IN  /\ after.accessed_at = now
            /\ after.salience = Min(before.salience + 100000, 5000000)
            /\ before.salience < 5000000 => after.salience > before.salience
            /\ before.salience = 5000000 => after.salience = 5000000

C5_Reinforce == [][C5_Step]_vars

\* C5 witness: a memory reinforced 41 times with no sweep in between: the
\* last reinforcement found it at 5.0, some time after it was created.
C5_Witness ==
    /\ lastOp.op = "touchMemory"
    /\ sweeps = 0
    /\ touches = 41
    /\ 1 \in DOMAIN memories
    /\ memories[1].salience = 5000000
    /\ memories[1].accessed_at = now
    /\ memories[1].created_at < now

\* C6: a sweep multiplies by 0.98 the salience of exactly the memories
\* neither created nor reinforced during the 24 hours before it, and leaves
\* the salience of every other memory as it was.
C6_Step ==
    lastOp'.op = "runDecaySweep" =>
        \A i \in DOMAIN memories :
            LET row == memories[i]
                recent == \/ row.created_at >= now' - 86400
                          \/ row.accessed_at >= now' - 86400
            IN  IF recent
                THEN i \in DOMAIN memories' /\ memories'[i].salience = row.salience
                ELSE IF i \in DOMAIN memories'
                     THEN memories'[i].salience = (row.salience * 98 + 50) \div 100
                     ELSE (row.salience * 98 + 50) \div 100 < 100000

C6_GraceWindow == [][C6_Step]_vars

\* 1.0 x 0.98^n in millionths, each product rounded to the nearest millionth
RECURSIVE Pow98(_)
Pow98(n) == IF n = 0 THEN 1000000 ELSE (Pow98(n - 1) * 98 + 50) \div 100

Pow98Table == [n \in 0..150 |-> Pow98(n)]

\* C7: under daily sweeps a memory stored with salience 1.0 and never
\* reinforced has salience 0.98 after its first sweep past the grace window
\* and 0.98^n after the n-th; it is stored while 0.98^n >= 0.1 and deleted
\* after that, by the 115th sweep at the latest.  (Stored at the first start,
\* the memory is 24 hours old at the first daily sweep, which is still
\* inside the window: n is the number of sweeps less one.)
C7_GeometricDecay ==
    \A i \in 1..seq :
        i \notin everTouched =>
            LET n == Max(0, sweeps - 1) IN
            /\ i \in DOMAIN memories =>
                  /\ memories[i].salience = Pow98Table[n]
                  /\ Pow98Table[n] >= 100000
                  /\ n = 1 => memories[i].salience = 980000
            /\ i \notin DOMAIN memories => Pow98Table[n] < 100000
            /\ sweeps >= 115 => i \notin DOMAIN memories

\* C7 witness: the 115th daily sweep has just deleted a memory that was never
\* reinforced and was still stored, at 0.98^113, before it.
C7_Witness ==
    /\ lastOp.op = "runDecaySweep"
    /\ sweeps = 115
    /\ seq = 2
    /\ 2 \notin everTouched
    /\ 2 \notin DOMAIN memories
    /\ Pow98Table[113] >= 100000

\* C8: no sweep deletes a memory that was reinforced since the sweep before
\* it, and under daily sweeps every stored memory that is never reinforced is
\* in the end deleted.
C8_Step ==
    lastOp'.op = "runDecaySweep" =>
        \A i \in touchedSince : i \in DOMAIN memories => i \in DOMAIN memories'

C8_ReinforcedPersists ==
    /\ [][C8_Step]_vars
    /\ (seq = 2) ~> (\A i \in 1..2 : i \notin DOMAIN memories \/ i \in everTouched)

\* C8 witness: after more than 115 daily sweeps the memory reinforced before
\* each of them is still stored, and the memory never reinforced is deleted.
C8_Witness ==
    /\ lastOp.op = "runDecaySweep"
    /\ sweeps > 115
    /\ touches = sweeps
    /\ 1 \in everTouched
    /\ 1 \in DOMAIN memories
    /\ seq = 2
    /\ 2 \notin DOMAIN memories

\* C9: of a semantic and an episodic memory created at the same time and
\* never reinforced, the episodic one is deleted by an earlier sweep: a sweep
\* that finds both still stored does not delete the semantic one.
C9_Step ==
    lastOp'.op = "runDecaySweep" =>
        \A i, j \in DOMAIN memories :
            (/\ memories[i].sector = "semantic"
             /\ memories[j].sector = "episodic"
             /\ memories[i].created_at = memories[j].created_at
             /\ i \notin everTouched
             /\ j \notin everTouched)
            => i \in DOMAIN memories'

C9_SemanticOutlivesEpisodic == [][C9_Step]_vars

\* C10, first step: a context built for an owner without memories is empty
\* and changes nothing.
C10_EmptyContext ==
    (lastOp'.op = "buildMemoryContext" /\ OwnedIds(DB, lastOp'.chat) = {}) =>
        lastOp'.text = "" /\ memories' = memories

\* C10, second step as claimed: recording the turn ("remember I use Go",
\* "Got it.") for an owner without memories stores one semantic memory.
C10_RecordsTurn ==
    (/\ lastOp'.op = "saveConversationTurn"
     /\ lastOp'.userMsg = "remember I use Go"
     /\ lastOp'.assistantMsg = "Got it."
     /\ OwnedIds(DB, lastOp'.chat) = {})
    => \E i \in DOMAIN memories' :
          /\ {j \in DOMAIN memories' : memories'[j].chat_id = lastOp'.chat} = {i}
          /\ memories'[i].sector = "semantic"

\* C10, second step as the code has it: "remember I use Go" has 17
\* characters, not more than 20, and is not stored; the same turn worded
\* "remember that I use Go" stores one semantic memory holding both sides.
C10_RecordsLongTurn ==
    /\ (lastOp'.op = "saveConversationTurn" /\ lastOp'.userMsg = "remember I use Go")
          => memories' = memories /\ memories_fts' = memories_fts
    /\ (/\ lastOp'.op = "saveConversationTurn"
        /\ lastOp'.userMsg = "remember that I use Go"
        /\ lastOp'.assistantMsg = "Got it."
        /\ OwnedIds(DB, lastOp'.chat) = {}
        /\ seq < MaxId)
       => \E i \in DOMAIN memories' :
             /\ {j \in DOMAIN memories' : memories'[j].chat_id = lastOp'.chat} = {i}
             /\ i \notin DOMAIN memories
             /\ memories'[i].sector = "semantic"
             /\ memories'[i].content = "User: remember that I use Go\nAssistant: Got it."
             /\ memories'[i].salience = 1000000

\* C10, third step: with that one memory stored, the context built for
\* "what language do I use" is a block containing its content, and the memory
\* then has accessed_at = now and, from 1.0, salience 1.1.
C10_Recall ==
    (/\ lastOp'.op = "buildMemoryContext"
     /\ lastOp'.userMessage = "what language do I use"
     /\ Cardinality(OwnedIds(DB, lastOp'.chat)) = 1)
    => \A i \in OwnedIds(DB, lastOp'.chat) :
          memories[i].content = "User: remember that I use Go\nAssistant: Got it." =>
              /\ lastOp'.text # ""
              /\ Includes(lastOp'.text, memories[i].content)
              /\ memories'[i].accessed_at = now
              /\ memories[i].salience = 1000000 => memories'[i].salience = 1100000

\* C10 as claimed: empty context, then the turn "remember I use Go" is
\* stored as one semantic memory, then it is recalled and reinforced.
C10_EndToEnd == [][C10_EmptyContext /\ C10_RecordsTurn /\ C10_Recall]_vars

\* C10 amended: empty context; the 17-character turn is not stored, the
\* turn worded with more than 20 characters is, as one semantic memory; that
\* memory is recalled, with accessed_at = now and salience 1.1.
C10_EndToEndLongTurn ==
    [][C10_EmptyContext /\ C10_RecordsLongTurn /\ C10_Recall]_vars

\* C10 witness: the stored turn has been recalled at a later time.
C10_Witness ==
    /\ lastOp.op = "buildMemoryContext"
    /\ lastOp.userMessage = "what language do I use"
    /\ lastOp.text = "[Memory context]\n- User: remember that I use Go\nAssistant: Got it. (semantic)"
    /\ \E i \in DOMAIN memories :
          /\ OwnedIds(DB, lastOp.chat) = {i}
          /\ memories[i].salience = 1100000
          /\ memories[i].accessed_at = now
          /\ memories[i].created_at < now

\* number of places at which p occurs in s
CountOf(s, p) ==
    Cardinality({i \in 1..(Len(s) - Len(p) + 1) : SubSeq(s, i, i + Len(p) - 1) = p})

\* C11: in one buildMemoryContext call a memory that both the keyword search
\* and the recency query returned is listed once and its salience rises by
\* one step of 0.1; the block lists the search hits in their order and then
\* the recency rows that were not search hits in theirs.
C11_Step ==
    (lastOp'.op = "buildMemoryContext" /\ ~lastOp'.caught) =>
        LET rows == lastOp'.rows
            f == lastOp'.fts
            r == lastOp'.recent
            both == RowIds(f) \cap RowIds(r)
        IN  /\ \A a, b \in DOMAIN rows : a # b => rows[a].id # rows[b].id
            /\ rows = f \o SelectSeq(r, LAMBDA m : m.id \notin RowIds(f))
            /\ CountOf(lastOp'.text, "\n- ") = Cardinality(RowIds(f) \cup RowIds(r))
            /\ \A i \in both :
                  /\ i \in DOMAIN memories'
                  /\ memories'[i].salience =
                        (IF memories[i].salience + 100000 <= 5000000
                         THEN memories[i].salience + 100000 ELSE 5000000)

C11_DedupMerge == [][C11_Step]_vars

\* C11 witness: a context of two memories, the first returned by the search
\* and by the recency query, the second by the recency query alone, after
\* which the first stands at 1.1.
C11_Witness ==
    /\ lastOp.op = "buildMemoryContext"
    /\ Len(lastOp.rows) = 2
    /\ Len(lastOp.fts) = 1
    /\ Len(lastOp.recent) = 2
    /\ lastOp.fts[1].id \in RowIds(lastOp.recent)
    /\ lastOp.rows[2].id \notin RowIds(lastOp.fts)
    /\ memories[lastOp.fts[1].id].salience = 1100000

\* C12: every memory listed in the context block of a turn was reinforced by
\* that turn's retrieval (salience one step up, accessed_at the current
\* time), and the agent is called only after that retrieval, with that block.
C12_Step ==
    /\ (lastOp'.op = "buildMemoryContext" /\ turn'.pc = "typing") =>
          \A k \in DOMAIN turn'.rows :
              LET i == turn'.rows[k].id IN
              /\ i \in DOMAIN memories /\ i \in DOMAIN memories'
              /\ memories'[i].accessed_at = now
              /\ memories'[i].salience =
                    (IF memories[i].salience + 100000 <= 5000000
                     THEN memories[i].salience + 100000 ELSE 5000000)
    /\ (turn'.pc = "agent" /\ turn.pc # "agent") =>
          /\ turn.pc = "typing"
          /\ RowIds(turn.rows) \subseteq turn.reinforced
          /\ turn.memoryContext # "" =>
                SubSeq(turn'.fullMessage, 1, Len(turn.memoryContext)) = turn.memoryContext

C12_ReinforcedBeforeAgent == [][C12_Step]_vars

\* C12 witness: the agent is running on a context block that lists a memory
\* stored at an earlier time and reinforced by this turn.
C12_Witness ==
    /\ turn.pc = "agent"
    /\ Len(turn.rows) > 0
    /\ turn.rows[1].id \in turn.reinforced
    /\ turn.rows[1].created_at < now
    /\ turn.rows[1].id \in DOMAIN memories
    /\ memories[turn.rows[1].id].accessed_at = now

\* C13: the memory of a turn is inserted after the agent's reply for the turn
\* is known, its content holds the message and that reply, and the turn's
\* own retrieval neither listed nor reinforced it.
C13_Step ==
    (lastOp'.op = "saveConversationTurn" /\ seq' > seq) =>
        /\ turn.pc = "save"
        /\ turn.agentCalled
        /\ seq' \in DOMAIN memories'
        /\ Includes(memories'[seq'].content, turn.rawText)
        /\ Includes(memories'[seq'].content, turn.resultText)
        /\ turn.resultText \in AssistantReplies
        /\ seq' \notin RowIds(turn.rows)
        /\ seq' \notin turn.reinforced

C13_InsertAfterReply == [][C13_Step]_vars

\* C13 witness: a turn that retrieved an older memory has stored its own.
C13_Witness ==
    /\ turn.pc = "replied"
    /\ turn.created = 2
    /\ RowIds(turn.rows) = {1}
    /\ 2 \in DOMAIN memories

\* C14: when the keyword search of buildMemoryContext throws and the owner
\* has memories, the block returned lists them by recency and they are
\* reinforced.
C14_Step ==
    (/\ lastOp'.op = "buildMemoryContext"
     /\ lastOp'.failedAt = "search"
     /\ \E i \in DOMAIN memories : memories[i].chat_id = lastOp'.chat)
    => /\ lastOp'.text # ""
       /\ \A i \in DOMAIN memories :
             memories[i].chat_id = lastOp'.chat =>
                 /\ i \in RowIds(lastOp'.rows)
                 /\ memories'[i].accessed_at = now

C14_RecencyFallback == [][C14_Step]_vars

\* C15: an error of the recency query inside buildMemoryContext reaches the
\* caller: handleMessage fails with it.
C15_Step ==
    (lastOp'.op = "buildMemoryContext" /\ lastOp'.failedAt = "recent") =>
        /\ ~lastOp'.caught
        /\ turn'.pc = "failed"
        /\ turn'.error = "buildMemoryContext"

C15_RecentErrorPropagates == [][C15_Step]_vars

\* C16: whichever store statement fails inside buildMemoryContext, the turn
\* goes on: the agent is called next, with the message alone, and its reply
\* is sent.
C16_Step ==
    /\ (lastOp'.op = "buildMemoryContext" /\ lastOp'.failedAt # "none") =>
          turn'.pc = "typing" /\ turn'.error = "none" /\ turn'.memoryContext = ""
    /\ (turn.pc = "typing" /\ turn.fault # "none" /\ turn' # turn) =>
          turn'.pc = "agent" /\ turn'.fullMessage = turn.rawText
    /\ (turn.pc = "reply" /\ turn' # turn) => turn'.pc = "replied"
    /\ turn'.pc = "failed" => turn'.error # "buildMemoryContext"

C16_RetrievalNeverBlocks == [][C16_Step]_vars

\* C16 witness: the reply of a turn was sent although the recency query of
\* its retrieval had failed on a store that holds a memory of the chat.
C16_Witness ==
    /\ turn.pc = "replied"
    /\ turn.fault = "recent"
    /\ turn.agentCalled
    /\ \E i \in DOMAIN memories : memories[i].chat_id = turn.chat

\* C17: an insert that fails during saveConversationTurn makes handleMessage
\* fail with the error, and a failing decayMemories makes runDecaySweep throw
\* to the timer.
C17_Step ==
    /\ (lastOp'.op = "saveConversationTurn" /\ lastOp'.fault
          /\ ~(Len(turn.rawText) <= 20)) =>
          lastOp'.threw /\ turn'.pc = "failed"
    /\ (lastOp'.op = "runDecaySweep" /\ lastOp'.fault # "none") => lastOp'.threw

C17_StoreErrorsPropagate == [][C17_Step]_vars

\* C18: insertMemory with a sector other than semantic and episodic, or with
\* empty content, throws and leaves the table and the index as they were.
C18_Step ==
    (/\ lastOp'.op = "insertMemory"
     /\ (lastOp'.sector \notin {"semantic", "episodic"} \/ lastOp'.content = ""))
    => /\ lastOp'.threw
       /\ memories' = memories
       /\ memories_fts' = memories_fts

C18_InsertValidated == [][C18_Step]_vars

\* C19: however the reinforcements of overlapping requests interleave, after
\* k of them a memory created at 1.0 stands at min(1.0 + 0.1 k, 5.0), and
\* each reinforcement adds its step to the salience stored at that moment.
C19_Step ==
    lastOp'.op = "touchMemory" =>
        \A i \in DOMAIN memories :
            i = lastOp'.id =>
                memories'[i].salience =
                    (IF memories[i].salience + 100000 <= 5000000
                     THEN memories[i].salience + 100000 ELSE 5000000)

C19_NoLostUpdate ==
    /\ [](\A i \in DOMAIN memories :
            memories[i].salience =
                (IF 1000000 + 100000 * touches <= 5000000
                 THEN 1000000 + 100000 * touches ELSE 5000000))
    /\ [][C19_Step]_vars

\* C19 witness: a request still holds the row it read at 4.9 while the
\* reinforcement of the other request, which read the same, is in: the memory
\* stands at the ceiling with one reinforcement to come.
C19_Witness ==
    /\ held["r1"] = <<>>
    /\ Len(held["r2"]) = 1
    /\ held["r2"][1].salience = 4900000
    /\ 1 \in DOMAIN memories
    /\ memories[1].salience = 5000000
    /\ lastOp.op = "touchMemory"

\* C20: sweeps do not overlap: a sweep runs its UPDATE only when no other
\* sweep stands between its UPDATE and its DELETE, the step after an UPDATE
\* is the DELETE of the same sweep, one UPDATE multiplies a salience by 0.98
\* at most once, and a memory never reinforced has been multiplied once for
\* every tick after the first.
C20_Step ==
    /\ lastOp'.op = "decayUpdate" =>
          /\ sweeping = {}
          /\ \A i \in DOMAIN memories :
                \/ memories'[i].salience = memories[i].salience
                \/ memories'[i].salience = (memories[i].salience * 98 + 50) \div 100
    /\ (sweeping # {} /\ vars' # vars) =>
          /\ lastOp'.op = "pruneDelete"
          /\ lastOp'.sweep \in sweeping
          /\ sweeping' = {}
          /\ now' = now

C20_SweepsNeverOverlap ==
    /\ [](Cardinality(sweeping) <= 1)
    /\ [](\A i \in DOMAIN memories :
            (i \notin everTouched /\ sweeps >= 1) =>
                memories[i].salience = Pow98Table[sweeps - 1])
    /\ [][C20_Step]_vars

\* C20 witness: the third sweep stands between its UPDATE and its DELETE, the
\* memory never reinforced multiplied twice so far.
C20_Witness ==
    /\ sweeping = {3}
    /\ lastOp.op = "decayUpdate"
    /\ 2 \in DOMAIN memories
    /\ 2 \notin everTouched
    /\ memories[2].salience = 960400

MainOps == {"main", "initDatabase", "runDecaySweep", "setInterval",
            "createBot", "botStart", "shutdown"}

C21_Step ==
    \* the first sweep is the one of the start: the database is initialised,
    \* no timer is set and the bot has not started
    /\ (sweeps = 0 /\ sweeps' = 1)
          => /\ proc.pc = "runDecaySweep"
             /\ lastOp.op = "initDatabase"
             /\ lastOp'.op = "runDecaySweep"
             /\ now' = now
    \* a message is handled only after that sweep, with the timer set
    /\ lastOp'.op \notin MainOps => sweeps >= 1 /\ proc.timer
    \* whenever 24 hours have passed the sweep runs
    /\ now' # now
          => /\ now' = now + IntervalSeconds
             /\ lastOp'.op = "runDecaySweep"
             /\ sweeps' = sweeps + 1
    \* a failing sweep is caught and leaves the process and its timer alone
    /\ (lastOp'.op = "runDecaySweep" /\ lastOp'.fault # "none")
          => /\ lastOp'.caught
             /\ ~lastOp'.threw
             /\ proc'.pc # "exited"
             /\ proc'.timer = proc.timer
             /\ (proc.pc = "running" => proc' = proc)
    \* while the bot runs the timer is set
    /\ proc'.pc = "running" => proc'.timer

\* C21: the sweep runs once at process start, after the database is
\* initialised and before the bot handles any message, and again on every
\* 24-hour tick while the process lives; a sweep that fails is caught and
\* logged and stops neither the process nor the later ticks.
C21_SweepAtStartAndDaily == [][C21_Step]_vars

\* C21 witness: the second tick's sweep failed at its DELETE and was caught;
\* the bot runs on with the timer set, and a memory stored by a turn since
\* the start has been decayed by the UPDATE.
C21_Witness ==
    /\ proc.pc = "running"
    /\ proc.timer
    /\ sweeps = 3
    /\ now = 2 * IntervalSeconds
    /\ lastOp.op = "runDecaySweep"
    /\ lastOp.fault = "delete"
    /\ lastOp.caught
    /\ \E i \in DOMAIN memories : memories[i].salience < InitialSalience

\* C22: decayAndPrune is idempotent: a second run right after the first, with
\* no other operation in between, leaves every memory's salience and the set
\* of stored memories as the first run left them.
C22_Idempotent ==
    [][(lastOp.op = "runDecaySweep" /\ lastOp'.op = "runDecaySweep")
          => memories' = memories]_vars

C23_Step ==
    lastOp'.op = "saveConversationTurn" =>
        LET u == lastOp'.userMsg IN
        IF Len(u) <= 20 \/ (Len(u) >= 1 /\ SubSeq(u, 1, 1) = "/")
        THEN /\ memories' = memories
             /\ memories_fts' = memories_fts
             /\ seq' = seq
        ELSE \E id \in DOMAIN memories' \ DOMAIN memories :
                /\ DOMAIN memories' = DOMAIN memories \cup {id}
                /\ memories'[id].chat_id = lastOp'.chat
                /\ \A i \in DOMAIN memories : memories'[i] = memories[i]

\* C23: recordTurn stores nothing when the user message has at most 20
\* characters or begins with '/', and in every other case stores exactly one
\* new memory, which belongs to the owner.
C23_RecordsLongTurnsOnly == [][C23_Step]_vars

\* C23 witness: a message of 21 characters has been stored as the second
\* memory of its chat.
C23_Witness ==
    /\ lastOp.op = "saveConversationTurn"
    /\ Len(lastOp.userMsg) = 21
    /\ seq = 2
    /\ \A i \in 1..2 : i \in DOMAIN memories /\ memories[i].chat_id = lastOp.chat

\* s holds one of the phrases as a whole word, letter case ignored
C24_HasTrigger(s, phrases) ==
    LET low == ToLower(s)
        wordChar(k) == k >= 1 /\ k <= Len(s) /\ IsWordChar(SubSeq(s, k, k))
    IN  \E p \in phrases :
           \E i \in 1..Len(s) :
              /\ i + Len(p) - 1 <= Len(s)
              /\ SubSeq(low, i, i + Len(p) - 1) = p
              /\ ~wordChar(i - 1)
              /\ ~wordChar(i + Len(p))

\* the sector of the memory a turn has stored is semantic exactly when the
\* user message holds one of the phrases
C24_SectorBy(phrases) ==
    (lastOp'.op = "saveConversationTurn" /\ seq' > seq) =>
        memories'[seq'].sector =
            IF C24_HasTrigger(lastOp'.userMsg, phrases) THEN "semantic" ELSE "episodic"

\* C24 as stated: a stored turn is semantic exactly when the user message
\* holds one of "my", "I am", "I prefer", "remember", "always", "never",
\* "I like", "I use", "I work" as a case-insensitive whole word.
C24_ListedTriggers ==
    [][C24_SectorBy({"my", "i am", "i prefer", "remember", "always", "never",
                     "i like", "i use", "i work"})]_vars

\* C24: a stored turn is semantic exactly when the user message holds one of
\* "my", "I am", "I'm", "I prefer", "remember", "always", "never", "I like",
\* "I hate", "I use", "I work" as a case-insensitive whole word, and episodic
\* otherwise; the assistant reply never influences the sector.
C24_PatternTriggers ==
    [][C24_SectorBy({"my", "i am", "i'm", "i prefer", "remember", "always",
                     "never", "i like", "i hate", "i use", "i work"})]_vars

\* C24 witness: a turn without a trigger in the user message, answered by a
\* reply full of triggers, has been stored as episodic.
C24_Witness ==
    /\ lastOp.op = "saveConversationTurn"
    /\ lastOp.userMsg = "Tell me about the economy today"
    /\ lastOp.assistantMsg = "I remember: you always use my tools."
    /\ seq \in DOMAIN memories
    /\ memories[seq].sector = "episodic"
    /\ Includes(memories[seq].content, "always use my tools")

\* C25: getMemoriesForChat returns the owner's memories ordered by salience
\* descending, ties broken by accessed_at descending, capped at the limit: no
\* returned memory has a higher salience than one listed before it.
C25_ListedBySalience ==
    lastOp.op = "getMemoriesForChat" =>
        /\ Len(lastOp.rows) <= ListLimit
        /\ \A k \in DOMAIN lastOp.rows : lastOp.rows[k].chat_id = lastOp.chat
        /\ \A a, b \in DOMAIN lastOp.rows :
              a < b =>
                 \/ lastOp.rows[a].salience > lastOp.rows[b].salience
                 \/ /\ lastOp.rows[a].salience = lastOp.rows[b].salience
                    /\ lastOp.rows[a].accessed_at >= lastOp.rows[b].accessed_at

C26_Step ==
    (lastOp'.op = "insertMemory" /\ lastOp'.sector \in {"semantic", "episodic"})
    => \E id \in DOMAIN memories' \ DOMAIN memories :
          /\ DOMAIN memories' = DOMAIN memories \cup {id}
          /\ memories'[id].salience = 1000000
          /\ memories'[id].created_at = now
          /\ memories'[id].accessed_at = now
          /\ memories'[id].chat_id = lastOp'.chat
          /\ memories'[id].content = lastOp'.content
          /\ memories'[id].sector = lastOp'.sector
          /\ \A i \in DOMAIN memories : memories'[i] = memories[i]

\* C26: insert(owner, content, sector) adds exactly one record, with salience
\* 1.0, created_at = accessed_at = now and the owner, content and sector
\* given, and changes no record that was stored before.
C26_InsertFrame == [][C26_Step]_vars

\* C26 witness: a second memory has been inserted after the clock moved on;
\* the first one stands as it was stored.
C26_Witness ==
    /\ lastOp.op = "insertMemory"
    /\ now = TickSeconds
    /\ DOMAIN memories = {1, 2}
    /\ memories[1].created_at = 0
    /\ memories[1].accessed_at = 0
    /\ memories[2].created_at = now
    /\ memories[2].accessed_at = now

C27_Step ==
    \* the key of a row is its id, and no stored id exceeds the sequence
    /\ \A i \in DOMAIN memories' : memories'[i].id = i /\ i <= seq'
    \* the sequence never goes back
    /\ seq' >= seq
    \* a new row gets an id above every id handed out before
    /\ \A i \in DOMAIN memories' \ DOMAIN memories : i = seq' /\ i > seq
    \* reinforcing an id that is no longer stored changes no memory
    /\ (lastOp'.op = "touchMemory" /\ lastOp'.id \notin DOMAIN memories)
          => memories' = memories

\* C27: memory ids are unique and handed out in increasing order; the id of a
\* pruned memory is never given to a later memory, so reinforcing a stale id
\* cannot affect a memory created after the prune.
C27_IdsNeverReused == [][C27_Step]_vars

\* C27 witness: memories 1 and 2 are pruned, memory 3 was stored after that,
\* and the stale id 1 has just been reinforced: memory 3 stands at 1.0.
C27_Witness ==
    /\ lastOp.op = "touchMemory"
    /\ lastOp.id = 1
    /\ DOMAIN memories = {3}
    /\ memories[3].salience = InitialSalience
    /\ memories[3].accessed_at = memories[3].created_at

\* the ids of the tasks that are active and due at time t
C28_DueIds(t) ==
    {i \in DOMAIN scheduled_tasks :
        scheduled_tasks[i].status = "active" /\ scheduled_tasks[i].next_run <= t}

\* C28: getDueTasks(now) returns exactly the tasks whose status is active and
\* whose next_run <= now; a paused task and a task whose next_run lies after
\* now are never returned, so the scheduler never runs them.
C28_ExactlyDueTasks ==
    /\ lastOp.op = "getDueTasks"
          => {lastOp.rows[k].id : k \in DOMAIN lastOp.rows} = C28_DueIds(lastOp.now)
    /\ lastOp.op = "runDueTasks"
          => \A k \in DOMAIN lastOp.rows :
                /\ lastOp.rows[k].status = "active"
                /\ lastOp.rows[k].next_run <= lastOp.now

\* C29: for every text and every limit >= 1 each chunk of splitMessage(text,
\* limit) has length <= limit, and a text of length <= limit is returned as
\* the single chunk equal to the text.
C29_ChunksWithinLimit ==
    lastOp.op = "splitMessage" =>
        /\ \A k \in DOMAIN lastOp.chunks : Len(lastOp.chunks[k]) <= lastOp.limit
        /\ Len(lastOp.text) <= lastOp.limit => lastOp.chunks = <<lastOp.text>>

\* C29 witness: a text of two lines, the first longer than the limit, has been
\* split into three chunks.
C29_Witness ==
    /\ lastOp.op = "splitMessage"
    /\ lastOp.limit = 1
    /\ lastOp.text = "ab\nb"
    /\ lastOp.chunks = <<"a", "b", "b">>

\* the chunks joined with a newline
RECURSIVE C30_Joined(_)
C30_Joined(chunks) ==
    IF chunks = <<>> THEN ""
    ELSE IF Len(chunks) = 1 THEN chunks[1]
    ELSE chunks[1] \o "\n" \o C30_Joined(Tail(chunks))

\* the positions of the newlines of s, with both ends
C30_Breaks(s) == {0, Len(s) + 1} \cup {i \in 1..Len(s) : SubSeq(s, i, i) = "\n"}

\* no line of s is longer than limit
C30_LinesFit(s, limit) ==
    \A i, j \in C30_Breaks(s) :
        (i < j /\ \A k \in C30_Breaks(s) : ~(i < k /\ k < j)) => j - i - 1 <= limit

\* C30: splitMessage preserves all content: for every text of several lines,
\* none of them longer than the limit, the chunks joined with a newline are
\* the text: no line, an empty line included, is lost or added.
C30_ContentPreserved ==
    (/\ lastOp.op = "splitMessage"
     /\ Cardinality(C30_Breaks(lastOp.text)) > 2
     /\ C30_LinesFit(lastOp.text, lastOp.limit))
    => C30_Joined(lastOp.chunks) = lastOp.text

\* the owner's memories that hold a word beginning with one of the tokens
C31_PrefixMatches(chatId, userMessage) ==
    {i \in DOMAIN memories :
        /\ memories[i].chat_id = chatId
        /\ \E t \in Range(QueryWords(userMessage)) :
              \E k \in DOMAIN FtsTokens(memories[i].content) :
                  StartsWith(FtsTokens(memories[i].content)[k], ToLower(t))}

\* C31: the keyword query treats each surviving token as a prefix and joins
\* the tokens with OR: a memory of the owner whose content holds a word that
\* begins with any one of the tokens is a keyword-search match.
C31_Step ==
    lastOp'.op = "buildMemoryContext" =>
        LET hits == C31_PrefixMatches(lastOp'.chat, lastOp'.userMessage)
        IN  Cardinality(hits) <= 3 => hits \subseteq RowIds(lastOp'.fts)

C31_EveryTokenIsPrefix == [][C31_Step]_vars

C32_Step ==
    (/\ lastOp'.op = "buildMemoryContext"
     /\ lastOp'.failedAt = "none"
     /\ lastOp'.fts = <<>>
     /\ lastOp'.recent = <<>>)
    => /\ lastOp'.text = ""
       /\ lastOp'.rows = <<>>
       /\ memories' = memories
       /\ memories_fts' = memories_fts
       /\ seq' = seq

\* C32: when neither the keyword search nor the recency lookup yields a
\* memory, buildContext returns the empty context and reinforces nothing: the
\* store is left exactly as it was before the call.
C32_EmptyContextTouchesNothing == [][C32_Step]_vars

\* C32 witness: a chat without memories asked for its context, with a query
\* that parses, while another chat's memory is stored; that memory stands as
\* it was inserted.
C32_Witness ==
    /\ lastOp.op = "buildMemoryContext"
    /\ lastOp.chat = "chat-2"
    /\ lastOp.userMessage = "which user"
    /\ lastOp.text = ""
    /\ lastOp.failedAt = "none"
    /\ DOMAIN memories = {1}
    /\ memories[1].chat_id = "chat-1"
    /\ memories[1].salience = InitialSalience

C33_Step ==
    lastOp'.op = "buildMemoryContext" =>
        LET owned == {i \in DOMAIN memories : memories[i].chat_id = lastOp'.chat}
            fts == lastOp'.fts
            recent == lastOp'.recent
            rows == lastOp'.rows
        IN  /\ Len(fts) <= 3
            /\ Len(recent) <= 5
            /\ Len(rows) <= 8
            /\ \A a, b \in DOMAIN rows : a # b => rows[a].id # rows[b].id
            /\ RowIds(rows) = RowIds(fts) \cup RowIds(recent)
            \* the rows reinforced are the rows of the block
            /\ {i \in DOMAIN memories : memories'[i] # memories[i]} = RowIds(rows)
            \* recent: the most recently accessed of the owner, newest first
            /\ RowIds(recent) \subseteq owned
            /\ Len(recent) = IF Cardinality(owned) < 5 THEN Cardinality(owned) ELSE 5
            /\ \A a, b \in DOMAIN recent :
                  a < b => recent[a].accessed_at >= recent[b].accessed_at
            /\ \A j \in owned \ RowIds(recent) :
                  \A a \in DOMAIN recent :
                      memories[j].accessed_at <= recent[a].accessed_at

\* C33: one buildContext call includes and reinforces at most 8 distinct
\* memories, at most 3 of them from the keyword search and at most 5 from the
\* recency lookup, which returns the 5 most recently accessed memories of the
\* owner, newest first.
C33_BlockBounded == [][C33_Step]_vars

\* C33 witness: with 8 memories stored, 4 of which match the query, a call
\* has included and reinforced 8 memories: 3 from the keyword search and the
\* 5 most recent.
C33_Witness ==
    /\ lastOp.op = "buildMemoryContext"
    /\ Len(lastOp.fts) = 3
    /\ Len(lastOp.recent) = 5
    /\ Len(lastOp.rows) = 8
    /\ Cardinality({i \in DOMAIN memories :
                       memories[i].content = "User likes Rust"}) = 4
    /\ \A i \in DOMAIN memories : memories[i].accessed_at = now


\* C34: a poll never starts a task that a call started by an earlier poll is
\* still executing: no two runDueTasks calls await the agent for one task.
C34_NoOverlappingRun ==
    \A r1 \in runs : \A r2 \in runs :
        r1 # r2 => Executing(r1) # Executing(r2)


\* the number of times the 0.98 multiplier was applied to reach salience s
\* from the initial 1.0
DecaysApplied(s) == CHOOSE k \in 0..(MaxResweeps + 2) : Pow98(k) = s

\* C35: no memory is decayed more than once within any 24 hours, whatever the
\* starts, restarts and interval ticks: a memory decayed k times is more than
\* k intervals old.
C35_DecayedOncePerDay ==
    \A i \in DOMAIN memories :
        DecaysApplied(memories[i].salience) * IntervalSeconds
            <= now - memories[i].created_at


\* C36: buildMemoryContext is all-or-nothing: whenever it returns the empty
\* context, a store operation failing part-way included, no memory's
\* salience or accessed_at has changed.
C36_Step ==
    (lastOp'.op = "buildMemoryContext" /\ lastOp'.text = "")
        => memories' = memories

C36_EmptyContextReinforcesNothing == [][C36_Step]_vars


\* the step is a handler acting for the chat c
ActsFor(c) == "chat" \in DOMAIN lastOp' /\ lastOp'.chat = c

\* C37: with a non-empty allow-list, a chat that is not on it never causes an
\* agent invocation or a change of memories, sessions or scheduled tasks,
\* whichever message or command it sends.
C37_Step ==
    \A c \in Chats :
        (ALLOWED_CHAT_IDS # {} /\ c \notin ALLOWED_CHAT_IDS /\ ActsFor(c))
            => /\ lastOp'.op # "runAgent"
               /\ memories' = memories
               /\ memories_fts' = memories_fts
               /\ sessions' = sessions
               /\ scheduled_tasks' = scheduled_tasks

C37_OtherChatsChangeNothing == [][C37_Step]_vars


\* the processes past acquireLock that have not begun to shut down
RunningInstances == {p \in Pids : instances[p].pc \in {"starting", "running"}}

\* no SIGTERM is pending, no shutdown handler is under way and no process is
\* inside acquireLock
LockSettled ==
    \A p \in Pids : /\ ~instances[p].sigterm
                    /\ instances[p].pc \notin {"writeFile", "stopping"}

\* C38: after any sequence of starts and SIGTERM shutdowns, once every
\* shutdown handler has finished, at most one instance is running and the
\* PID file holds the pid of the instance that runs.
C38_SingleInstance ==
    LockSettled =>
        /\ Cardinality(RunningInstances) <= 1
        /\ \A p \in RunningInstances : PID_FILE = p


\* the columns of a memory that reinforcement leaves alone
KeptColumns(row) ==
    [id |-> row.id, chat_id |-> row.chat_id, topic_key |-> row.topic_key,
     content |-> row.content, sector |-> row.sector,
     created_at |-> row.created_at]

\* C39: touchMemory(id) changes only the salience and accessed_at of that
\* memory: its owner, content, sector and creation time, every other memory,
\* the set of stored ids and the index stay as they were; for an id that is
\* not stored nothing changes at all.
C39_Step ==
    lastOp'.op = "touchMemory" =>
        /\ DOMAIN memories' = DOMAIN memories
        /\ seq' = seq
        /\ memories_fts' = memories_fts
        /\ \A i \in DOMAIN memories :
              IF i = lastOp'.id
              THEN KeptColumns(memories'[i]) = KeptColumns(memories[i])
              ELSE memories'[i] = memories[i]
        /\ lastOp'.id \notin DOMAIN memories => memories' = memories

C39_ReinforceFrame == [][C39_Step]_vars

\* memory 1 was reinforced while memory 2, stored beside it, kept its values
C39_Witness ==
    /\ lastOp.op = "touchMemory"
    /\ lastOp.id = 1
    /\ DOMAIN memories = {1, 2}
    /\ memories[1].salience = Reinforced(InitialSalience)
    /\ memories[1].accessed_at > memories[1].created_at
    /\ memories[2].salience = InitialSalience
    /\ memories[2].accessed_at = memories[2].created_at

====
